---- MODULE Spec2Model ----
(***************************************************************************)
(* CraftLauncher: the download manager (src/js/downloader.js), the version *)
(* catalog it resolves against (src/js/versions.js) and the application    *)
(* shutdown path that cancels downloads (CraftLauncher.shutdown).          *)
(*                                                                         *)
(* One action is one macrotask of the JavaScript event loop: a call made   *)
(* by the user interface, or one timer callback, together with every       *)
(* promise continuation (microtask) that the callback makes runnable.  An  *)
(* await on a promise that a timer callback resolves is continued before   *)
(* the next macrotask starts, so the continuation of downloadFile and of   *)
(* downloadVersion is part of the action of the timer callback.            *)
(*                                                                         *)
(* Byte counts.  simulateDownload adds chunkSize * speedVariation bytes    *)
(* per tick with speedVariation = 0.5 + Math.random(), a fraction in       *)
(* [0.5, 1.5).  The model draws speedVariation from halves of that         *)
(* interval and keeps download.downloaded in half bytes (Fix), so the      *)
(* arithmetic is exact.                                                    *)
(***************************************************************************)
EXTENDS Integers, Sequences, FiniteSets, TLC

VARIABLES
    tasks,             \* every download object made by downloadFile, by id
    activeDownloads,   \* DownloadManager.activeDownloads: the ids in the Map
    downloadStats,     \* DownloadManager.downloadStats
    batches,           \* every downloadVersion call, in call order
    installedVersions, \* VersionManager.installedVersions
    verified,          \* results delivered by verifyFile: <<task id, isValid>>
    unloaded,          \* CraftLauncher.shutdown has run: the page is gone
    resolved,          \* the outcome of every getVersionDetails and
                       \* calculateDownloadSize call, in call order
    gameSettings,      \* GameLauncher.gameSettings
    launchParams,      \* what the latest prepareLaunchParameters call returned,
                       \* in a sequence that is empty before the first call
    currentUser,       \* AuthManager.currentUser
    authType,          \* AuthManager.authType
    authTimers,        \* the authentications whose timeout has not fired yet
    platform,          \* navigator.platform
    launches,          \* every launchGame call, in call order
    gameProcess,       \* GameLauncher.gameProcess
    launchHistory,     \* GameLauncher.launchHistory
    elapsed,           \* for each download, the interval callbacks it has had:
                       \* Date.now() - download.startTime in intervals.  It
                       \* is followed while the download is in the map, where
                       \* calculateAverageSpeed reads its speed, and is 0 after
    reports,           \* for each downloadVersion call, its downloadedSize and
                       \* the reports its onProgress got in the last callback
    invocation         \* the one call of a function that is followed on its
                       \* own: its arguments, its local variables and what
                       \* it did so far

downloadVars == <<tasks, activeDownloads, downloadStats, batches, installedVersions,
                  verified, unloaded>>

resolverVars == <<resolved>>

authVars == <<currentUser, authType, authTimers>>

launchVars == <<launches, gameProcess, launchHistory>>

launcherVars == <<gameSettings, launchParams, authVars, platform, launchVars>>

\* the speeds and the progress reports are followed in SpecProgress alone, a
\* call on its own in SpecIntervals and SpecRetry alone
progressVars == <<elapsed, reports, invocation>>

vars == <<downloadVars, resolverVars, launcherVars, progressVars>>

\* no call is followed on its own
NoCall == [fn |-> "none"]

(***************************************************************************)
(* Bounds of the model.                                                    *)
(***************************************************************************)
\* downloadFile calls followed in one run (made directly or by downloadVersion)
MaxTasks == 3
\* downloadVersion calls followed in one run
MaxBatches == 1
\* calls that resolve a version (getVersionDetails, calculateDownloadSize,
\* downloadVersion) followed in one run of the resolver
MaxResolves == 2
\* words and whitespace characters in the jvmArgs setting
MaxPieces == 3
\* names, numbers and colons in a server address
MaxAddressPieces == 3
\* launchGame calls followed in one run
MaxLaunches == 2
\* the largest maxAttempts that a retry call is followed with
MaxAttempts == 4
\* simulateDownload cuts a file into chunks of floor(size / 100); the model
\* cuts it into chunks of floor(size / ChunkDivisor)
ChunkDivisor == 1

(***************************************************************************)
(* Program constants.                                                      *)
(***************************************************************************)
maxConcurrentDownloads == 3

\* addToLaunchHistory: the launches it keeps
LaunchHistoryLimit == 50

\* simulateGameLaunch: launchSteps.length
LaunchSteps == 4

Min(a, b) == IF a < b THEN a ELSE b

\* a byte count in half bytes
Fix(bytes) == bytes * 2

\* 0.5 + Math.random(), a factor in [0.5, 1.5), in halves: 0.5, 1.0 and the
\* factors just under 1.5 rounded to the half
SpeedVariations == {1, 2, 3}

\* Math.floor(Math.random() * 50000000) + 1000000, scaled
MockSizes == {2}

Terminal == {"completed", "failed", "cancelled"}

NonTerminal == {"pending", "downloading", "paused"}


(***************************************************************************)
(* The version catalog (VersionManager).                                   *)
(***************************************************************************)
\* the ids of getMockVersions
VersionIds ==
    {"1.21.1", "1.21", "24w21b", "1.20.6", "1.20.4", "1.19.4", "1.18.2",
     "1.16.5", "1.12.2", "1.8.9"}

\* the modLoader argument of a call without loader
NoLoader == "null"

\* the first entries of getMockLibraries' baseLibraries, each with the
\* downloads.artifact that getMockLibraries gives every library
getMockLibraries ==
    << [name |-> "com.mojang:logging:1.0.0", artifact |-> TRUE],
       [name |-> "com.mojang:blocklist:1.0.10", artifact |-> TRUE] >>

\* a lookup that finds every id: the missing check C12 excludes
KnownVersionAlways(versionId) == TRUE

\* getVersionById(id) finds a version
KnownVersion(versionId) == versionId \in VersionIds

\* the version ids and loaders the user interface asks for
RequestedVersions == {"1.20.4", "0.0"}

RequestedLoaders == {NoLoader, "fabric"}

\* getModLoaderSize, scaled like the mock file sizes (forge 15000000,
\* fabric 5000000, optifine 8000000, any other loader 0)
getModLoaderSize(modLoader) ==
    CASE modLoader = "forge" -> 6
      [] modLoader = "fabric" -> 3
      [] modLoader = "optifine" -> 4
      [] OTHER -> 0

\* versionDetails.assetIndex.totalSize (234567890 in getVersionDetails), scaled
AssetTotalSize == 5

\* downloadAssets: Math.floor(totalSize / 200), scaled
AssetChunk(totalSize) == totalSize \div 2

\* downloadModLoader: Math.floor(modLoaderSize / 50), scaled
LoaderChunk(modLoaderSize) == modLoaderSize \div 2

\* getMockLibraries' baseLibraries: each name as its parts between the colons
baseLibraries ==
    << <<"com.mojang", "logging", "1.0.0">>,
       <<"com.mojang", "blocklist", "1.0.10">>,
       <<"com.mojang", "datafixerupper", "6.0.8">>,
       <<"com.google.guava", "guava", "32.1.2-jre">>,
       <<"commons-io", "commons-io", "2.11.0">>,
       <<"commons-codec", "commons-codec", "1.15">>,
       <<"net.java.dev.jna", "jna", "5.12.1">>,
       <<"net.java.dev.jna", "jna-platform", "5.12.1">>,
       <<"org.lwjgl", "lwjgl", "3.3.1">>,
       <<"org.lwjgl", "lwjgl-jemalloc", "3.3.1">>,
       <<"org.lwjgl", "lwjgl-openal", "3.3.1">>,
       <<"org.lwjgl", "lwjgl-opengl", "3.3.1">>,
       <<"org.lwjgl", "lwjgl-glfw", "3.3.1">>,
       <<"org.lwjgl", "lwjgl-stb", "3.3.1">> >>

\* the parts of a string written with sep between them
RECURSIVE Join(_, _)
Join(parts, sep) ==
    IF parts = << >> THEN ""
    ELSE IF Len(parts) = 1 THEN parts[1]
    ELSE parts[1] \o sep \o Join(Tail(parts), sep)

\* the library name as baseLibraries writes it
LibraryName(lib) == Join(lib, ":")

\* a path made of the group of the library alone: the clash C17 excludes
LibraryPathOfGroup(lib) == lib[1] \o ".jar"

\* artifact.path: lib.replace(/:/g, '/') + '.jar'
LibraryPath(lib) == Join(lib, "/") \o ".jar"

\* the artifact paths of the libraries, in the order of baseLibraries
LibraryPaths == [i \in DOMAIN baseLibraries |-> LibraryPath(baseLibraries[i])]

\* the filename downloadVersion gives the client jar: `${versionId}.jar`
ClientPath(versionId) == versionId \o ".jar"

\* getVersionSize, scaled like the mock file sizes (12345678 .. 25678901 by
\* version, 20000000 for a version without entry)
getVersionSize(versionId) ==
    CASE versionId \in {"1.21.1", "1.21"} -> 3
      [] versionId = "1.8.9" -> 1
      [] OTHER -> 2

\* artifact.size of a library: Math.floor(Math.random() * 1000000) + 50000,
\* scaled
LibrarySizes == {1, 2}

\* one draw of the artifact sizes of the libraries of a version
LibrarySizeDraws == [1..Len(getMockLibraries) -> LibrarySizes]

\* the draw that is followed where only one is
SampledLibrarySizes == {[i \in 1..Len(getMockLibraries) |-> 1]}

VanillaMainClass == "net.minecraft.client.main.Main"

\* GameLauncher's constructor: the settings before loadSettings merges the
\* saved ones.  jvmArgs is the string cut into its words and the whitespace
\* characters between them
DefaultSettings ==
    [ ramAllocation    |-> 2048,
      resolutionWidth  |-> 1280,
      resolutionHeight |-> 720,
      jvmArgs          |-> <<"-XX:+UseG1GC", " ", "-XX:+UnlockExperimentalVMOptions">> ]

\* version.type of getMockVersions: 24w21b is the one snapshot
getVersionType(versionId) == IF versionId = "24w21b" THEN "snapshot" ELSE "release"

\* getAssetIndex(versionId): the startsWith tests, on the ids of the catalog
getAssetIndex(versionId) ==
    CASE versionId \in {"1.21.1", "1.21"} -> "8"
      [] versionId \in {"1.20.6", "1.20.4"} -> "7"
      [] versionId = "1.19.4" -> "6"
      [] versionId = "1.18.2" -> "5"
      [] versionId = "1.16.5" -> "4"
      [] versionId = "1.12.2" -> "1.12"
      [] versionId = "1.8.9" -> "1.8"
      [] OTHER -> "legacy"

\* minecraftArguments of getVersionDetails: the string cut into its words,
\* its placeholders and the spaces between them
minecraftArguments ==
    << "--username", " ", "${auth_player_name}", " ",
       "--version", " ", "${version_name}", " ",
       "--gameDir", " ", "${game_directory}", " ",
       "--assetsDir", " ", "${assets_root}", " ",
       "--assetIndex", " ", "${assets_index_name}", " ",
       "--uuid", " ", "${auth_uuid}", " ",
       "--accessToken", " ", "${auth_access_token}", " ",
       "--userType", " ", "${user_type}", " ",
       "--versionType", " ", "${version_type}" >>

\* what getVersionDetails(versionId) returns for a version of the catalog when
\* Math.random() gives the libraries the artifact sizes sizes.  sha1 is the
\* string that Utils.hashString is applied to.
getVersionDetails(versionId, sizes) ==
    [ id         |-> versionId,
      type       |-> getVersionType(versionId),
      mainClass  |-> VanillaMainClass,
      minecraftArguments |-> minecraftArguments,
      libraries  |-> [i \in 1..Len(getMockLibraries) |->
                        [ name     |-> getMockLibraries[i].name,
                          artifact |-> getMockLibraries[i].artifact,
                          path     |-> LibraryPaths[i],
                          sha1     |-> LibraryName(baseLibraries[i]) \o versionId,
                          size     |-> sizes[i] ]],
      client     |-> [ size |-> getVersionSize(versionId) ],
      assetIndex |-> [ id |-> getAssetIndex(versionId),
                       totalSize |-> AssetTotalSize ] ]

\* in place of the version details of a call that threw before it had them
NoDetails == [id |-> "none"]

\* versionDetails.libraries.forEach(lib => { if (lib.downloads &&
\* lib.downloads.artifact) totalSize += lib.downloads.artifact.size })
\* starting from totalSize, over the libraries from index i on
RECURSIVE AddLibraries(_, _, _)
AddLibraries(totalSize, libraries, i) ==
    IF i > Len(libraries) THEN totalSize
    ELSE AddLibraries(IF libraries[i].artifact
                      THEN totalSize + libraries[i].size ELSE totalSize,
                      libraries, i + 1)

\* the totalSize that downloadVersion computes before its first download
DownloadTotalSize(versionDetails, modLoader) ==
    LET withLibraries == AddLibraries(versionDetails.client.size,
                                      versionDetails.libraries, 1)
        withAssets == withLibraries + versionDetails.assetIndex.totalSize
    IN IF modLoader # NoLoader
       THEN withAssets + getModLoaderSize(modLoader)
       ELSE withAssets

\* a sum that leaves the loader out: the shortfall C14 excludes
calculateDownloadSizeWithoutLoader(versionDetails, modLoader) ==
    AddLibraries(versionDetails.client.size, versionDetails.libraries, 1)
        + versionDetails.assetIndex.totalSize

\* what calculateDownloadSize returns once it has the version details
calculateDownloadSize(versionDetails, modLoader) ==
    LET withLibraries == AddLibraries(versionDetails.client.size,
                                      versionDetails.libraries, 1)
        withAssets == withLibraries + versionDetails.assetIndex.totalSize
    IN IF modLoader # NoLoader
       THEN withAssets + getModLoaderSize(modLoader)
       ELSE withAssets

\* versionId.includes(part) for the ids of the catalog and the parts that
\* getModLoaders asks for ('w', 'pre', 'rc'): only 24w21b has one of them
includes(versionId, part) == <<versionId, part>> \in {<<"24w21b", "w">>}

\* the ids of the loaders that getModLoaders(versionId) lists
getModLoaders(versionId) ==
    (IF ~includes(versionId, "w") /\ ~includes(versionId, "pre")
           /\ ~includes(versionId, "rc")
     THEN {"forge"} ELSE {})
    \cup {"fabric"}
    \cup (IF ~includes(versionId, "w") /\ ~includes(versionId, "pre")
          THEN {"optifine"} ELSE {})

\* the artifacts of a version that downloadVersion fetches with downloadFile:
\* 0 is the client jar, i the i-th library
HasArtifact(i) == getMockLibraries[i].artifact

\* a loop that walks the libraries from the last to the first: the order C6
\* excludes
NextLibraryReversed(i) ==
    IF i = 0 THEN Len(getMockLibraries) ELSE i - 1

\* a loop that finds no library to download: the skipped artifacts C33
\* excludes
NextLibraryNone(i) == 0

\* the next library after index i that declares downloads.artifact, or 0
NextLibrary(i) ==
    LET later == {j \in (i + 1)..Len(getMockLibraries) : HasArtifact(j)}
    IN IF later = {} THEN 0 ELSE CHOOSE j \in later : \A k \in later : j <= k

\* the number of downloadFile calls one downloadVersion call makes at most
FilesPerVersion == 1 + Cardinality({i \in 1..Len(getMockLibraries) : HasArtifact(i)})

(***************************************************************************)
(* DownloadManager.downloadFile and simulateDownload.                      *)
(***************************************************************************)
Ids == 1..Len(tasks)

\* the download object of downloadFile after simulateDownload's executor has
\* run: created pending, then given its mock size and set to downloading,
\* with its interval running.  owner is the downloadVersion call that awaits
\* it (0 for a direct call) and artifact what it fetches for that call.
\*
\* The interval runs until the promise settles (status completed or failed)
\* or the page's timers are cleared.  The executor also arms, when
\* Math.random() < 0.05, a timeout that clears the interval and rejects.
\* Whether it is armed is not kept in the state: the timeout acts only while
\* the promise is pending, and then FailTimer may fire at any moment; after
\* the promise has settled the timeout changes nothing.
NewDownload(owner, artifact, onProgress, size) ==
    [ status     |-> "downloading",
      size       |-> size,
      downloaded |-> 0,
      reported   |-> 0,          \* download.downloaded as last passed to onProgress
      onProgress |-> onProgress, \* options.onProgress is given
      owner      |-> owner,
      artifact   |-> artifact ]

\* the chunk of a file of fewer bytes than the divisor: the standstill C35
\* excludes
chunkSizeNone(size) == 0

\* const chunkSize = Math.floor(download.size / 100)
chunkSize(size) == size \div ChunkDivisor

\* the chunk with speedVariation = Math.random() - 0.5, a factor that can be
\* negative: the loss of bytes C11 excludes
chunkDownloadedSigned(size, downloaded, speedVariation) ==
    Min(chunkSize(size) * (speedVariation - 2), Fix(size) - downloaded)

\* the chunk without the Math.min against the remaining bytes: the overshoot
\* C10 excludes
chunkDownloadedUnclamped(size, downloaded, speedVariation) ==
    chunkSize(size) * speedVariation

\* Math.min(chunkSize * speedVariation, download.size - downloaded), in Fix units
chunkDownloaded(size, downloaded, speedVariation) ==
    Min(chunkSize(size) * speedVariation, Fix(size) - downloaded)

\* one interval callback up to the completion test: the new download object
IntervalStep(d, speedVariation) ==
    LET got == d.downloaded + chunkDownloaded(d.size, d.downloaded, speedVariation)
    IN [d EXCEPT !.downloaded = got,
                 !.reported = IF d.onProgress THEN got ELSE @]

\* if (downloaded >= download.size)
IsComplete(d) == d.downloaded >= Fix(d.size)

\* downloadFile after simulateDownload resolved: status, then the statistics
Completed(d) == [d EXCEPT !.status = "completed"]

\* downloadFile's catch after simulateDownload rejected
Failed(d) == [d EXCEPT !.status = "failed"]

\* the promise of simulateDownload is pending and its timers are running
Running(t) == t \in Ids /\ ~unloaded /\ tasks[t].status \notin {"completed", "failed"}

StatsAfter(d) ==
    [downloadStats EXCEPT !.totalFiles = @ + 1,
                          !.totalDownloaded = @ + d.size]

(***************************************************************************)
(* DownloadManager.downloadVersion.                                        *)
(***************************************************************************)
ArtifactName(i) == IF i = 0 THEN "client" ELSE getMockLibraries[i].name

\* the state of one downloadVersion call.  pc is the await it stands at:
\* "client", "libraries" (task is the awaited download), "assets",
\* "modLoader", or its result: "installed" (returned true) or "rejected".
NewBatch(versionId, modLoader, pc, task, versionDetails, totalSize) ==
    [ versionId |-> versionId,
      modLoader |-> modLoader,
      versionDetails |-> versionDetails, \* what getVersionDetails returned
      totalSize |-> totalSize, \* the total of the progress reports
      pc        |-> pc,
      library   |-> 0,       \* index of the library being downloaded
      task      |-> task,    \* id of the awaited download, 0 when none
      progress  |-> 0,       \* downloaded of downloadAssets / downloadModLoader
      started   |-> IF task = 0 THEN << >> ELSE << "client" >>,
      cancelled |-> FALSE ]  \* cancelAllDownloads was called during the call

\* downloadFile calls that the running downloadVersion calls have still to make
Reserved ==
    Cardinality({p \in (DOMAIN batches) \X (1..Len(getMockLibraries)) :
                    /\ batches[p[1]].pc \in {"client", "libraries"}
                    /\ p[2] > batches[p[1]].library
                    /\ HasArtifact(p[2])})

\* versionManager.markVersionInstalled(versionId); return true
Installed(B) == [B EXCEPT !.pc = "installed", !.task = 0]

\* the catch of downloadVersion: the error is rethrown to the caller
Rejected(B) == [B EXCEPT !.pc = "rejected", !.task = 0]

\* downloadVersion continues after downloadAssets resolved
AfterAssets(B) ==
    IF B.modLoader # NoLoader
    THEN [B EXCEPT !.pc = "modLoader", !.progress = 0,
                   !.started = Append(@, "modLoader")]
    ELSE Installed(B)

\* downloadVersion continues after the awaited downloadFile returned: the next
\* library that has an artifact is downloaded, and after the last one the
\* assets.  T, A are tasks and activeDownloads as downloadFile left them.
AfterFile(b, T, A) ==
    LET B == batches[b]
        j == NextLibrary(B.library)
        id == Len(T) + 1
    IN IF j # 0
       THEN \E size \in MockSizes :
              /\ tasks' = Append(T, NewDownload(b, ArtifactName(j), TRUE, size))
              /\ activeDownloads' = A \cup {id}
              /\ batches' = [batches EXCEPT ![b] =
                               [B EXCEPT !.pc = "libraries", !.library = j, !.task = id,
                                         !.started = Append(@, ArtifactName(j))]]
       ELSE /\ tasks' = T
            /\ activeDownloads' = A
            /\ batches' = [batches EXCEPT ![b] =
                             [B EXCEPT !.pc = "assets", !.task = 0, !.progress = 0,
                                       !.started = Append(@, "assets")]]

\* downloadVersion(versionId, modLoader, onProgress) up to its first await on
\* a timer: getVersionDetails, the total size, the client jar's downloadFile
\* sizes are the artifact sizes that getVersionDetails draws for the libraries
DownloadVersionOfStep(versionId, modLoader, sizes) ==
    /\ ~unloaded
    /\ Len(batches) < MaxBatches
    /\ IF ~KnownVersion(versionId)
       THEN /\ batches' = Append(batches,
                                 NewBatch(versionId, modLoader, "rejected", 0,
                                          NoDetails, 0))
            /\ UNCHANGED <<tasks, activeDownloads>>
       ELSE /\ Len(tasks) + Reserved + FilesPerVersion <= MaxTasks
            /\ \E size \in MockSizes :
                 LET id == Len(tasks) + 1
                     versionDetails == getVersionDetails(versionId, sizes)
                 IN /\ tasks' = Append(tasks, NewDownload(Len(batches) + 1, "client",
                                                         TRUE, size))
                    /\ activeDownloads' = activeDownloads \cup {id}
                    /\ batches' = Append(batches,
                                         NewBatch(versionId, modLoader, "client", id,
                                                  versionDetails,
                                                  DownloadTotalSize(versionDetails,
                                                                    modLoader)))
    /\ UNCHANGED <<downloadStats, installedVersions, verified, unloaded>>

\* the call where the speeds and the reports are not followed
DownloadVersionOf(versionId, modLoader, sizes) ==
    /\ DownloadVersionOfStep(versionId, modLoader, sizes)
    /\ UNCHANGED <<resolverVars, launcherVars, progressVars>>

DownloadVersion(versionId, modLoader) ==
    \E sizes \in SampledLibrarySizes : DownloadVersionOf(versionId, modLoader, sizes)

\* downloadFile(url, filename) called directly with the default options = {},
\* up to its await, while fewer than limit downloadFile calls were made
DownloadFileStep(limit) ==
    /\ ~unloaded
    /\ Len(tasks) + Reserved < limit
    /\ \E size \in MockSizes :
         /\ tasks' = Append(tasks, NewDownload(0, "file", FALSE, size))
         /\ activeDownloads' = activeDownloads \cup {Len(tasks) + 1}
    /\ UNCHANGED <<downloadStats, batches, installedVersions, verified, unloaded>>

\* the call where the speeds and the reports are not followed
DownloadFileWithin(limit) ==
    /\ DownloadFileStep(limit)
    /\ UNCHANGED <<resolverVars, launcherVars, progressVars>>

DownloadFile == DownloadFileWithin(MaxTasks)

\* one callback of simulateDownload's interval for download t, and, when it
\* resolves the promise, the rest of downloadFile (status, statistics, finally)
\* and of the downloadVersion call that awaits it
TickStep(t) ==
    /\ Running(t)
    /\ \E speedVariation \in SpeedVariations :
         LET d == IntervalStep(tasks[t], speedVariation)
         IN IF IsComplete(d)
            THEN /\ downloadStats' = StatsAfter(d)
                 /\ IF d.owner # 0
                    THEN AfterFile(d.owner, [tasks EXCEPT ![t] = Completed(d)],
                                   activeDownloads \ {t})
                    ELSE /\ tasks' = [tasks EXCEPT ![t] = Completed(d)]
                         /\ activeDownloads' = activeDownloads \ {t}
                         /\ UNCHANGED batches
            ELSE /\ tasks' = [tasks EXCEPT ![t] = d]
                 /\ UNCHANGED <<activeDownloads, downloadStats, batches>>
    /\ UNCHANGED <<installedVersions, verified, unloaded>>

\* the callback where the speeds and the reports are not followed
Tick(t) ==
    /\ TickStep(t)
    /\ UNCHANGED <<resolverVars, launcherVars, progressVars>>

\* the failure timeout of download t fires while the promise is pending:
\* clearInterval and reject, then downloadFile's catch and finally, and the
\* awaiting downloadVersion call rethrows
FailTimer(t) ==
    /\ Running(t)
    /\ tasks' = [tasks EXCEPT ![t] = Failed(@)]
    /\ activeDownloads' = activeDownloads \ {t}
    /\ batches' = IF tasks[t].owner # 0
                  THEN [batches EXCEPT ![tasks[t].owner] = Rejected(@)]
                  ELSE batches
    /\ UNCHANGED <<downloadStats, installedVersions, verified, unloaded, resolverVars, launcherVars, progressVars>>

\* one callback of downloadAssets' interval, and the rest of downloadVersion
\* when it resolves
AssetsTickStep(b) ==
    /\ b \in DOMAIN batches
    /\ batches[b].pc = "assets"
    /\ ~unloaded
    /\ LET B == [batches[b] EXCEPT !.progress = @ + AssetChunk(AssetTotalSize)]
       IN IF B.progress >= AssetTotalSize
          THEN /\ batches' = [batches EXCEPT ![b] = AfterAssets(B)]
               /\ installedVersions' = IF AfterAssets(B).pc = "installed"
                                       THEN installedVersions \cup {B.versionId}
                                       ELSE installedVersions
          ELSE /\ batches' = [batches EXCEPT ![b] = B]
               /\ UNCHANGED installedVersions
    /\ UNCHANGED <<tasks, activeDownloads, downloadStats, verified, unloaded>>

\* the callback for a downloadVersion call whose caller does nothing more
\* when it returns and whose reports are not followed
AssetsTick(b) ==
    /\ AssetsTickStep(b)
    /\ UNCHANGED <<resolverVars, launcherVars, progressVars>>

\* one callback of downloadModLoader's interval, and the rest of
\* downloadVersion when it resolves
LoaderTickStep(b) ==
    /\ b \in DOMAIN batches
    /\ batches[b].pc = "modLoader"
    /\ ~unloaded
    /\ LET size == getModLoaderSize(batches[b].modLoader)
           B == [batches[b] EXCEPT !.progress = @ + LoaderChunk(size)]
       IN IF B.progress >= size
          THEN /\ batches' = [batches EXCEPT ![b] = Installed(B)]
               /\ installedVersions' = installedVersions \cup {B.versionId}
          ELSE /\ batches' = [batches EXCEPT ![b] = B]
               /\ UNCHANGED installedVersions
    /\ UNCHANGED <<tasks, activeDownloads, downloadStats, verified, unloaded>>

\* the callback for a downloadVersion call whose caller does nothing more
\* when it returns and whose reports are not followed
LoaderTick(b) ==
    /\ LoaderTickStep(b)
    /\ UNCHANGED <<resolverVars, launcherVars, progressVars>>

(***************************************************************************)
(* Cancel, pause, resume, cleanup, shutdown.                               *)
(***************************************************************************)
\* cancelDownload(downloadId)
CancelDownload(t) ==
    /\ ~unloaded
    /\ t \in activeDownloads
    /\ tasks' = [tasks EXCEPT ![t].status = "cancelled"]
    /\ activeDownloads' = activeDownloads \ {t}
    /\ UNCHANGED <<downloadStats, batches, installedVersions, verified, unloaded, resolverVars, launcherVars, progressVars>>

\* the download objects after cancelAllDownloads' forEach
CancelledAll(T) ==
    [t \in DOMAIN T |-> IF t \in activeDownloads
                        THEN [T[t] EXCEPT !.status = "cancelled"]
                        ELSE T[t]]

\* a downloadVersion call that has neither returned nor thrown
InProgress(B) == B.pc \notin {"installed", "rejected"}

\* records, for each downloadVersion call in progress, that the whole batch
\* was cancelled
BatchesCancelled(Bs) ==
    [b \in DOMAIN Bs |-> IF InProgress(Bs[b])
                         THEN [Bs[b] EXCEPT !.cancelled = TRUE]
                         ELSE Bs[b]]

\* cancelAllDownloads()
CancelAllDownloads ==
    /\ ~unloaded
    /\ tasks' = CancelledAll(tasks)
    /\ activeDownloads' = {}
    /\ batches' = BatchesCancelled(batches)
    /\ UNCHANGED <<downloadStats, installedVersions, verified, unloaded, resolverVars, launcherVars, progressVars>>

\* pauseDownload(downloadId)
PauseDownload(t) ==
    /\ ~unloaded
    /\ t \in activeDownloads
    /\ tasks[t].status = "downloading"
    /\ tasks' = [tasks EXCEPT ![t].status = "paused"]
    /\ UNCHANGED <<activeDownloads, downloadStats, batches, installedVersions,
                   verified, unloaded, resolverVars, launcherVars, progressVars>>

\* resumeDownload(downloadId)
ResumeDownload(t) ==
    /\ ~unloaded
    /\ t \in activeDownloads
    /\ tasks[t].status = "paused"
    /\ tasks' = [tasks EXCEPT ![t].status = "downloading"]
    /\ UNCHANGED <<activeDownloads, downloadStats, batches, installedVersions,
                   verified, unloaded, resolverVars, launcherVars, progressVars>>

\* cleanupOldDownloads(), called by CraftLauncher.clearCaches, at a moment when
\* exactly the first k downloads have a startTime more than 24 hours ago (the
\* ids are given in the order of the startTimes; timers do not run while the
\* machine sleeps, so a download can be that old and still be running)
CleanupOldDownloads(k) ==
    /\ ~unloaded
    /\ k \in Ids
    /\ activeDownloads' = activeDownloads \ (1..k)
    /\ UNCHANGED <<tasks, downloadStats, batches, installedVersions, verified, unloaded, resolverVars, launcherVars, progressVars>>

\* CraftLauncher.shutdown() on beforeunload or restart: cleanupManagers calls
\* cancelAllDownloads, then clearTimers clears every interval and timeout
Shutdown ==
    /\ ~unloaded
    /\ tasks' = CancelledAll(tasks)
    /\ activeDownloads' = {}
    /\ batches' = BatchesCancelled(batches)
    /\ unloaded' = TRUE
    /\ UNCHANGED <<downloadStats, installedVersions, verified, resolverVars, launcherVars, progressVars>>

\* verifyFile(filename, expectedSha1) for the file of download t: resolves with
\* Math.random() > 0.05
VerifyFile(t, isValid) ==
    /\ ~unloaded
    /\ t \in Ids
    /\ verified' = verified \cup {<<t, isValid>>}
    /\ UNCHANGED <<tasks, activeDownloads, downloadStats, batches, installedVersions,
                   unloaded, resolverVars, launcherVars, progressVars>>

(***************************************************************************)
(* VersionManager: resolving a version.                                    *)
(***************************************************************************)
\* what a resolver call left behind: its arguments and either the error it
\* threw or the version details it worked on (and, for calculateDownloadSize,
\* the total it returned)
Resolution(call, versionId, modLoader, error, versionDetails, totalSize) ==
    [ call           |-> call,
      versionId      |-> versionId,
      modLoader      |-> modLoader,
      error          |-> error,
      versionDetails |-> versionDetails,
      totalSize      |-> totalSize ]

NoError == "none"

\* throw new Error(`Version ${versionId} not found`)
NotFound(versionId) == "Version " \o versionId \o " not found"

\* getVersionDetails(versionId)
GetVersionDetails(versionId) ==
    /\ Len(resolved) + Len(batches) < MaxResolves
    /\ IF ~KnownVersion(versionId)
       THEN resolved' = Append(resolved,
                Resolution("getVersionDetails", versionId, NoLoader,
                           NotFound(versionId), NoDetails, 0))
       ELSE \E sizes \in LibrarySizeDraws :
              resolved' = Append(resolved,
                  Resolution("getVersionDetails", versionId, NoLoader, NoError,
                             getVersionDetails(versionId, sizes), 0))
    /\ UNCHANGED <<downloadVars, launcherVars, progressVars>>

\* calculateDownloadSize(versionId, modLoader): its getVersionDetails call and
\* the sum
CalculateDownloadSize(versionId, modLoader) ==
    /\ Len(resolved) + Len(batches) < MaxResolves
    /\ IF ~KnownVersion(versionId)
       THEN resolved' = Append(resolved,
                Resolution("calculateDownloadSize", versionId, modLoader,
                           NotFound(versionId), NoDetails, 0))
       ELSE \E sizes \in LibrarySizeDraws :
              LET versionDetails == getVersionDetails(versionId, sizes)
              IN resolved' = Append(resolved,
                     Resolution("calculateDownloadSize", versionId, modLoader, NoError,
                                versionDetails,
                                calculateDownloadSize(versionDetails, modLoader)))
    /\ UNCHANGED <<downloadVars, launcherVars, progressVars>>

\* downloadVersion(versionId, modLoader, onProgress) as one more call that
\* resolves the version
ResolveAndDownload(versionId, modLoader) ==
    /\ Len(resolved) + Len(batches) < MaxResolves
    /\ DownloadVersion(versionId, modLoader)

(***************************************************************************)
(* GameLauncher: settings and launch parameters.                           *)
(***************************************************************************)
\* the whitespace characters a jvmArgs string is made of beside its words
Whitespace == {" ", "\t"}

\* str.split(' ') on a string given as its pieces: the pieces between one
\* space and the next, an empty entry where two spaces meet or the string ends
RECURSIVE split(_)
split(pieces) ==
    IF \A k \in DOMAIN pieces : pieces[k] # " " THEN << pieces >>
    ELSE LET k == CHOOSE i \in DOMAIN pieces :
                      /\ pieces[i] = " "
                      /\ \A j \in 1..(i - 1) : pieces[j] # " "
         IN << SubSeq(pieces, 1, k - 1) >> \o split(SubSeq(pieces, k + 1, Len(pieces)))

\* arg.trim() is not the empty string
trim(arg) == \E k \in DOMAIN arg : arg[k] \notin Whitespace

\* the string that the pieces make
Text(arg) == Join(arg, "")

\* a minimum that does not follow the allocation: the flag C18 excludes
MinimumMemoryFixed(ramAllocation) == 512

\* Math.min(512, this.gameSettings.ramAllocation)
MinimumMemory(ramAllocation) == Min(512, ramAllocation)

\* the three system properties that buildJVMArguments pushes last
SystemProperties ==
    << "-Djava.library.path=natives",
       "-Dminecraft.launcher.brand=CraftLauncher",
       "-Dminecraft.launcher.version=1.0.0" >>

\* buildJVMArguments() with this.gameSettings = settings
buildJVMArguments(settings) ==
    LET memory == << "-Xmx" \o ToString(settings.ramAllocation) \o "M",
                     "-Xms" \o ToString(MinimumMemory(settings.ramAllocation)) \o "M" >>
        kept == SelectSeq(split(settings.jvmArgs), trim)
        custom == IF settings.jvmArgs # << >>
                  THEN [k \in DOMAIN kept |-> Text(kept[k])]
                  ELSE << >>
    IN memory \o custom \o SystemProperties

\* str.split(sep) on a string given as its pieces
RECURSIVE splitOn(_, _)
splitOn(pieces, sep) ==
    IF \A k \in DOMAIN pieces : pieces[k] # sep THEN << pieces >>
    ELSE LET k == CHOOSE i \in DOMAIN pieces :
                      /\ pieces[i] = sep
                      /\ \A j \in 1..(i - 1) : pieces[j] # sep
         IN << SubSeq(pieces, 1, k - 1) >>
                \o splitOn(SubSeq(pieces, k + 1, Len(pieces)), sep)

\* a replace that changes nothing: the template C22 excludes
replaceNothing(str, pattern, replacement) == str

\* str.replace(pattern, replacement) with a string pattern: the first
\* occurrence of pattern gives way to replacement, the rest stays
replace(str, pattern, replacement) ==
    IF \A k \in DOMAIN str : str[k] # pattern THEN str
    ELSE LET k == CHOOSE i \in DOMAIN str :
                      /\ str[i] = pattern
                      /\ \A j \in 1..(i - 1) : str[j] # pattern
         IN SubSeq(str, 1, k - 1) \o replacement \o SubSeq(str, k + 1, Len(str))

\* the authType of AuthManager while nobody is logged in
NoAuth == "null"

\* getUserType(user): the switch on authManager.getAuthType()
getUserType(type) ==
    IF type \in {"microsoft", "mojang"} THEN "mojang" ELSE "legacy"

\* getGameDirectory(), getAssetsDirectory()
GameDirectory == ".minecraft"

AssetsDirectory == ".minecraft/assets"

\* the placeholders of replaceArgumentVariables and what each is replaced
\* with, in the order of the replace calls
ArgumentVariables(user, versionDetails, gameDirectory, assetsDirectory, type) ==
    << << "${auth_player_name}", user.username >>,
       << "${version_name}", << versionDetails.id >> >>,
       << "${game_directory}", << gameDirectory >> >>,
       << "${assets_root}", << assetsDirectory >> >>,
       << "${assets_index_name}", << versionDetails.assetIndex.id >> >>,
       << "${auth_uuid}", user.uuid >>,
       << "${auth_access_token}", user.accessToken >>,
       << "${user_type}", << getUserType(type) >> >>,
       << "${version_type}", << versionDetails.type >> >>,
       << "${launcher_name}", << "CraftLauncher" >> >>,
       << "${launcher_version}", << "1.0.0" >> >> >>

\* arg after the replace calls from the i-th on
RECURSIVE ReplaceFrom(_, _, _)
ReplaceFrom(arg, variables, i) ==
    IF i > Len(variables) THEN arg
    ELSE ReplaceFrom(replace(arg, variables[i][1], variables[i][2]), variables, i + 1)

\* replaceArgumentVariables(arg, user, versionDetails, gameDirectory,
\* assetsDirectory), with the account type that getUserType finds
replaceArgumentVariables(arg, user, versionDetails, gameDirectory, assetsDirectory, type) ==
    ReplaceFrom(arg, ArgumentVariables(user, versionDetails, gameDirectory,
                                       assetsDirectory, type), 1)

\* server arguments that always name a port: the argument C24 excludes
ServerArgumentsWithPort(serverAddress) ==
    LET parts == splitOn(serverAddress, ":")
    IN IF serverAddress # << >>
       THEN << "--server", Text(parts[1]), "--port",
               IF Len(parts) > 1 THEN Text(parts[2]) ELSE "" >>
       ELSE << >>

\* buildGameArguments: const [ip, port] = serverAddress.split(':') and the
\* arguments made of them.  The empty serverAddress stands for null.
ServerArguments(serverAddress) ==
    LET parts == splitOn(serverAddress, ":")
        ip == parts[1]
        port == IF Len(parts) > 1 THEN parts[2] ELSE << >>
    IN IF serverAddress # << >>
       THEN << "--server", Text(ip) >>
                \o (IF Text(port) # "" THEN << "--port", Text(port) >> ELSE << >>)
       ELSE << >>

\* buildGameArguments(user, versionDetails, gameDirectory, assetsDirectory,
\* serverAddress) with this.gameSettings = settings.  The version details of
\* this catalog carry minecraftArguments (the legacy format).
buildGameArguments(user, versionDetails, gameDirectory, assetsDirectory, serverAddress, settings, type) ==
    LET args == split(versionDetails.minecraftArguments)
        template == IF versionDetails.minecraftArguments # << >>
                    THEN [k \in DOMAIN args |->
                            Text(replaceArgumentVariables(args[k], user, versionDetails,
                                     gameDirectory, assetsDirectory, type))]
                    ELSE << >>
    IN template
         \o << "--width", ToString(settings.resolutionWidth),
               "--height", ToString(settings.resolutionHeight) >>
         \o ServerArguments(serverAddress)

\* navigator.platform of the browsers the launcher runs in
Platforms == {"Win32", "Linux x86_64"}

\* getPathSeparator(): navigator.platform.toLowerCase().includes('win')
getPathSeparator(os) == IF os = "Win32" THEN ";" ELSE ":"

\* a classpath that lists every library, also one without artifact: the
\* entry C23 excludes
ClasspathEntriesOfAll(versionDetails) ==
    << "versions/" \o versionDetails.id \o "/" \o versionDetails.id \o ".jar" >>
        \o [k \in DOMAIN versionDetails.libraries |->
              "libraries/" \o versionDetails.libraries[k].path]

\* buildClasspath: the array before the join
ClasspathEntries(versionDetails) ==
    LET withArtifact == SelectSeq(versionDetails.libraries,
                                  LAMBDA library : library.artifact)
    IN << "versions/" \o versionDetails.id \o "/" \o versionDetails.id \o ".jar" >>
         \o [k \in DOMAIN withArtifact |-> "libraries/" \o withArtifact[k].path]

\* buildClasspath(versionDetails, librariesDirectory)
buildClasspath(versionDetails, os) ==
    Join(ClasspathEntries(versionDetails), getPathSeparator(os))

\* what prepareLaunchParameters(user, versionDetails, modLoader,
\* serverAddress) returns when it finds this.gameSettings = settings,
\* authManager.getAuthType() = type and navigator.platform = os.  The last
\* three fields are not in the returned object: they keep what the call was
\* given and read.
LaunchParameters(user, versionDetails, modLoader, serverAddress, settings, type, os) ==
    [ mainClass |-> versionDetails.mainClass,
      classpath |-> buildClasspath(versionDetails, os),
      jvmArgs   |-> buildJVMArguments(settings),
      gameArgs  |-> buildGameArguments(user, versionDetails, GameDirectory,
                                       AssetsDirectory, serverAddress, settings, type),
      workingDirectory |-> GameDirectory,
      versionId |-> versionDetails.id,
      user      |-> user,
      modLoader |-> modLoader,
      versionDetails |-> versionDetails,
      serverAddress  |-> serverAddress,
      settings  |-> settings ]

\* the user objects of AuthManager: username, uuid and accessToken, each a
\* string given as its pieces.  authenticateOffline draws uuid and token with
\* Utils.generateUUID.
OfflineUser(username) ==
    [ username |-> username, uuid |-> << "u-1" >>, accessToken |-> << "offline_t" >> ]

MicrosoftUser ==
    [ username    |-> << "MinecraftPlayer" >>,
      uuid        |-> << "550e8400-e29b-41d4-a716-446655440000" >>,
      accessToken |-> << "microsoft_t" >>,
      refreshToken |-> << "refresh_t" >> ]

MojangUser ==
    [ username    |-> << "MojangPlayer" >>,
      uuid        |-> << "069a79f4-44e9-4726-a5be-fca90e38aaf5" >>,
      accessToken |-> << "mojang_t" >> ]

\* this.currentUser while nobody is logged in
NoUser == [ username |-> << >>, uuid |-> << >>, accessToken |-> << >> ]

\* the user that launches where one user does
Steve == OfflineUser(<< "Steve" >>)

\* the settings that loadSettings can find saved: a memory size and a width
\* as the settings page or an imported file left them, and any jvmArgs string
\* of at most MaxPieces words and whitespace characters
RamAllocations == {0, 256, 1024, 2048}

ResolutionWidths == {0, 1280}

JvmArgPieces == {"-Xa", "-Xb"} \cup Whitespace

JvmArgStrings == UNION {[1..n -> JvmArgPieces] : n \in 0..MaxPieces}

\* updateSettings({ key: value }) from the settings page
UpdateSettings(key, value) ==
    /\ gameSettings' = [gameSettings EXCEPT ![key] = value]
    /\ UNCHANGED <<downloadVars, progressVars, resolverVars, launchParams, authVars, platform, launchVars>>

\* prepareLaunchParameters(user, versionDetails, modLoader, serverAddress)
PrepareLaunchParametersWith(user, versionDetails, modLoader, serverAddress) ==
    /\ launchParams' = << LaunchParameters(user, versionDetails, modLoader,
                                           serverAddress, gameSettings, authType,
                                           platform) >>
    /\ UNCHANGED <<downloadVars, progressVars, resolverVars, gameSettings, authVars, platform, launchVars>>

\* prepareLaunchParameters as launchGame calls it for Steve, with the version
\* details of versionId and without server
PrepareLaunchParameters(versionId, modLoader) ==
    /\ KnownVersion(versionId)
    /\ \E sizes \in SampledLibrarySizes :
         PrepareLaunchParametersWith(Steve, getVersionDetails(versionId, sizes),
                                     modLoader, << >>)

(***************************************************************************)
(* GameLauncher.launchGame, simulateGameLaunch and the launch history.     *)
(***************************************************************************)
\* this.gameProcess = null
NoProcess == [version |-> "null", user |-> << >>]

\* the state of one launchGame call.  pc is "starting" while
\* simulateGameLaunch's interval runs (step is its currentStep), and the
\* result of the call afterwards: "launched" (returned true) or "rejected"
\* with the message of the error it threw.  user is the username of the
\* current user that the call read, empty when it threw before.
NewLaunch(versionId, modLoader, serverAddress, user, pc, error) ==
    [ versionId |-> versionId,
      modLoader |-> modLoader,
      serverAddress |-> serverAddress,
      user      |-> user,
      pc        |-> pc,
      step      |-> 0,
      error     |-> error ]

\* Date.now() of a launch: later than the timestamps of the history
Timestamp(history) ==
    LET stamps == {history[i].timestamp : i \in DOMAIN history}
    IN IF stamps = {} THEN 1
       ELSE 1 + CHOOSE t \in stamps : \A u \in stamps : u <= t

\* the launchData of launchGame
LaunchData(versionId, timestamp) == [versionId |-> versionId, timestamp |-> timestamp]

\* a history that gets its entries at the back: the order C38 excludes
addToLaunchHistoryAtEnd(history, launchData) == history \o << launchData >>

\* addToLaunchHistory(launchData): unshift, then splice(50) when the history
\* has more than 50 entries
addToLaunchHistory(history, launchData) ==
    LET added == << launchData >> \o history
    IN IF Len(added) > LaunchHistoryLimit
       THEN SubSeq(added, 1, LaunchHistoryLimit)
       ELSE added

\* the launch history that n launches of earlier sessions left in
\* localStorage, the latest launch first
SavedHistory(n) == [i \in 1..n |-> LaunchData("1.20.4", n + 1 - i)]

\* authManager.isAuthenticated()
isAuthenticated == currentUser # NoUser /\ authType # NoAuth

\* a test that finds every version installed: the launch C27 excludes
isVersionInstalledAlways(installed, versionId) == TRUE

\* versionManager.isVersionInstalled(versionId) when installedVersions is
\* installed
isVersionInstalled(installed, versionId) == versionId \in installed

\* launchGame(versionId, modLoader, serverAddress) up to its await on
\* simulateGameLaunch's timers: the checks, getVersionDetails,
\* prepareLaunchParameters and the executor of simulateGameLaunch.
\* installed is installedVersions at the moment of the call.
LaunchGameStepIn(installed, versionId, modLoader, serverAddress) ==
    /\ Len(launches) < MaxLaunches
    /\ IF ~isAuthenticated
       THEN /\ launches' = Append(launches, NewLaunch(versionId, modLoader, serverAddress,
                                      << >>, "rejected", "User not authenticated"))
            /\ UNCHANGED launchParams
       ELSE IF ~isVersionInstalled(installed, versionId)
       THEN /\ launches' = Append(launches, NewLaunch(versionId, modLoader, serverAddress,
                                      << >>, "rejected",
                                      "Minecraft " \o versionId \o " is not installed"))
            /\ UNCHANGED launchParams
       ELSE IF ~KnownVersion(versionId)
       THEN /\ launches' = Append(launches, NewLaunch(versionId, modLoader, serverAddress,
                                      << >>, "rejected", NotFound(versionId)))
            /\ UNCHANGED launchParams
       ELSE /\ launches' = Append(launches, NewLaunch(versionId, modLoader, serverAddress,
                                      currentUser.username, "starting", NoError))
            /\ \E sizes \in SampledLibrarySizes :
                 launchParams' = << LaunchParameters(currentUser,
                                        getVersionDetails(versionId, sizes), modLoader,
                                        serverAddress, gameSettings, authType, platform) >>
    /\ UNCHANGED <<gameSettings, authVars, platform, gameProcess, launchHistory>>

LaunchGameStep(versionId, modLoader, serverAddress) ==
    LaunchGameStepIn(installedVersions, versionId, modLoader, serverAddress)

\* launchGame called by joinServer or by a handlePlayGame that finds the
\* version installed
LaunchGame(versionId, modLoader, serverAddress) ==
    /\ ~unloaded
    /\ LaunchGameStep(versionId, modLoader, serverAddress)
    /\ UNCHANGED <<downloadVars, progressVars, resolverVars>>

\* handlePlayGame() with versionId and modLoader selected: downloadVersion
\* when the version is not installed, launchGame at once when it is.  One
\* launchGame call is kept for each downloadVersion call in progress.
HandlePlayGame(versionId, modLoader) ==
    /\ ~unloaded
    /\ Len(launches) + Cardinality({b \in DOMAIN batches :
                                       batches[b].pc \notin {"installed", "rejected"}})
          < MaxLaunches
    /\ IF ~isVersionInstalled(installedVersions, versionId)
       THEN DownloadVersion(versionId, modLoader)
       ELSE /\ LaunchGameStep(versionId, modLoader, << >>)
            /\ UNCHANGED <<downloadVars, progressVars, resolverVars>>

\* handlePlayGame after its downloadVersion call returned true: launchGame
PlayAfterDownload(b) ==
    IF batches'[b].pc = "installed"
    THEN LaunchGameStepIn(installedVersions', batches[b].versionId,
                          batches[b].modLoader, << >>)
    ELSE UNCHANGED launcherVars

\* the callbacks for a downloadVersion call that handlePlayGame awaits
PlayAssetsTick(b) ==
    /\ AssetsTickStep(b)
    /\ PlayAfterDownload(b)
    /\ UNCHANGED <<resolverVars, progressVars>>

PlayLoaderTick(b) ==
    /\ LoaderTickStep(b)
    /\ PlayAfterDownload(b)
    /\ UNCHANGED <<resolverVars, progressVars>>

\* one callback of simulateGameLaunch's interval for launch c: a notification
\* for each launch step, then the game process, and the rest of launchGame
LaunchTick(c) ==
    /\ ~unloaded
    /\ c \in DOMAIN launches
    /\ launches[c].pc = "starting"
    /\ IF launches[c].step < LaunchSteps
       THEN /\ launches' = [launches EXCEPT ![c].step = @ + 1]
            /\ UNCHANGED <<gameProcess, launchHistory>>
       ELSE /\ launches' = [launches EXCEPT ![c].pc = "launched"]
            /\ gameProcess' = [version |-> launches[c].versionId,
                               user |-> launches[c].user]
            /\ launchHistory' = addToLaunchHistory(launchHistory,
                                    LaunchData(launches[c].versionId,
                                               Timestamp(launchHistory)))
    /\ UNCHANGED <<downloadVars, progressVars, resolverVars, gameSettings, launchParams, authVars,
                   platform>>

\* the failure timeout of simulateGameLaunch fires while the launch is
\* starting: clearInterval and reject, and launchGame rethrows
LaunchFailTimer(c) ==
    /\ ~unloaded
    /\ c \in DOMAIN launches
    /\ launches[c].pc = "starting"
    /\ launches' = [launches EXCEPT ![c].pc = "rejected",
                                    ![c].error = "Failed to start game process"]
    /\ UNCHANGED <<downloadVars, progressVars, resolverVars, gameSettings, launchParams, authVars,
                   platform, gameProcess, launchHistory>>

\* the onload callback of importSettings(file) for a file that holds a
\* launchHistory and no gameSettings
ImportSettings(history) ==
    /\ launchHistory' = history
    /\ UNCHANGED <<downloadVars, progressVars, resolverVars, gameSettings, launchParams, authVars,
                   platform, launches, gameProcess>>

(***************************************************************************)
(* AuthManager.                                                            *)
(***************************************************************************)
\* authenticateOffline(username) with a username that isValidUsername accepts
AuthenticateOffline(username) ==
    /\ currentUser' = OfflineUser(username)
    /\ authType' = "offline"
    /\ UNCHANGED <<downloadVars, progressVars, resolverVars, gameSettings, launchParams,
                   authTimers, platform, launchVars>>

\* authenticateMicrosoft() or authenticateMojang(email, password) with valid
\* inputs: the call arms the timeout that logs the user in
Authenticate(type) ==
    /\ type \notin authTimers
    /\ authTimers' = authTimers \cup {type}
    /\ UNCHANGED <<downloadVars, progressVars, resolverVars, gameSettings, launchParams,
                   currentUser, authType, platform, launchVars>>

\* the timeout of authenticateMicrosoft or authenticateMojang
AuthenticateTimeout(type) ==
    /\ type \in authTimers
    /\ authTimers' = authTimers \ {type}
    /\ currentUser' = IF type = "microsoft" THEN MicrosoftUser ELSE MojangUser
    /\ authType' = type
    /\ UNCHANGED <<downloadVars, progressVars, resolverVars, gameSettings, launchParams, platform, launchVars>>

\* updateProfile({ username: username })
UpdateProfile(username) ==
    /\ currentUser # NoUser /\ authType # NoAuth
    /\ currentUser' = [currentUser EXCEPT !.username = username]
    /\ UNCHANGED <<downloadVars, progressVars, resolverVars, gameSettings, launchParams,
                   authType, authTimers, platform, launchVars>>

\* this.currentUser.refreshToken is set: of the users, the Microsoft user
\* alone has the field
hasRefreshToken(user) == "refreshToken" \in DOMAIN user

\* refreshMicrosoftToken() by a user who has a refresh token: the call arms
\* the timeout that renews the access token
RefreshMicrosoftToken ==
    /\ currentUser # NoUser
    /\ hasRefreshToken(currentUser)
    /\ "refresh" \notin authTimers
    /\ authTimers' = authTimers \cup {"refresh"}
    /\ UNCHANGED <<downloadVars, progressVars, resolverVars, gameSettings, launchParams,
                   currentUser, authType, platform, launchVars>>

\* the timeout of refreshMicrosoftToken: this.currentUser.accessToken = ...
\* and saveAuth.  With currentUser null the assignment throws a TypeError and
\* nothing is written
RefreshTimeout ==
    /\ "refresh" \in authTimers
    /\ authTimers' = authTimers \ {"refresh"}
    /\ currentUser' = IF currentUser = NoUser THEN NoUser
                      ELSE [currentUser EXCEPT !.accessToken = << "microsoft_t2" >>]
    /\ UNCHANGED <<downloadVars, progressVars, resolverVars, gameSettings, launchParams,
                   authType, platform, launchVars>>

\* logout()
Logout ==
    /\ currentUser' = NoUser
    /\ authType' = NoAuth
    /\ UNCHANGED <<downloadVars, progressVars, resolverVars, gameSettings, launchParams,
                   authTimers, platform, launchVars>>

(***************************************************************************)
(* Speeds and progress reports of the download manager.                    *)
(***************************************************************************)
\* a quotient of two numbers that JavaScript computes as a float, kept exact
Quotient(num, den) == [num |-> num, den |-> den]

Zero == Quotient(0, 1)

\* the value Infinity, as the quotient that gives it
Infinity == Quotient(1, 0)

\* download.speed: 0 from downloadFile until the first interval callback,
\* then downloaded / elapsed as the last callback computed it, in half bytes
\* per interval
speed(d, e) == IF e = 0 THEN Zero ELSE Quotient(d.downloaded, e)

\* activeDownloads.reduce((sum, download) => sum + download.speed, 0) over
\* the downloads with the ids in A
RECURSIVE totalSpeed(_, _, _)
totalSpeed(A, T, E) ==
    IF A = {} THEN Zero
    ELSE LET t == CHOOSE x \in A : TRUE
             sum == totalSpeed(A \ {t}, T, E)
             s == speed(T[t], E[t])
         IN Quotient(sum.num * s.den + s.num * sum.den, sum.den * s.den)

\* calculateAverageSpeed() when the map holds the ids A
calculateAverageSpeed(A, T, E) ==
    IF Cardinality(A) = 0 THEN Zero
    ELSE LET total == totalSpeed(A, T, E)
         IN Quotient(total.num, total.den * Cardinality(A))

\* the time that all bytes of the total would take: the ETA C28 excludes
calculateETAOfTotal(downloaded, total, averageSpeed) ==
    IF averageSpeed.num = 0 THEN Infinity
    ELSE Quotient(total * averageSpeed.den, averageSpeed.num)

\* calculateETA(downloaded, total), averageSpeed being what its
\* calculateAverageSpeed call returns
calculateETA(downloaded, total, averageSpeed) ==
    LET remaining == total - downloaded
    IN IF averageSpeed.num = 0 THEN Infinity
       ELSE Quotient(remaining * averageSpeed.den, averageSpeed.num)

\* what updateProgress passes to onProgress while the map holds the ids A,
\* with the speeds of those downloads as the call finds them
Report(downloadedSize, totalSize, A, T, E) ==
    [ progress   |-> Quotient(downloadedSize * 100, totalSize),
      downloaded |-> downloadedSize,
      total      |-> totalSize,
      speed      |-> calculateAverageSpeed(A, T, E),
      eta        |-> calculateETA(downloadedSize, totalSize,
                                  calculateAverageSpeed(A, T, E)),
      speeds     |-> [t \in A |-> speed(T[t], E[t])] ]

\* downloadVersion's downloadedSize, and the reports of its latest callback
Progress(downloadedSize, made) == [downloadedSize |-> downloadedSize, made |-> made]

\* downloadVersion(versionId, modLoader, onProgress) with a callback
ReportedDownloadVersion(versionId, modLoader) ==
    /\ \E sizes \in SampledLibrarySizes :
          DownloadVersionOfStep(versionId, modLoader, sizes)
    /\ reports' = Append(reports, Progress(0, << >>))
    /\ elapsed' = IF Len(tasks') > Len(tasks) THEN Append(elapsed, 0) ELSE elapsed
    /\ UNCHANGED <<resolverVars, launcherVars, invocation>>

\* downloadFile called directly, once: the download that runs next to those
\* of the reporting downloadVersion call
TimedDownloadFile ==
    /\ \A t \in Ids : tasks[t].owner # 0
    /\ DownloadFileStep(MaxTasks + 1)
    /\ elapsed' = Append(elapsed, 0)
    /\ UNCHANGED <<reports, resolverVars, launcherVars, invocation>>

\* the interval callback of download t with its speed, the onProgress of
\* downloadVersion that it calls, and the report that downloadVersion makes
\* after its downloadFile call returned
ReportedTick(t) ==
    /\ TickStep(t)
    /\ LET b == tasks[t].owner
           d == tasks'[t]
           E == IF t \in activeDownloads THEN [elapsed EXCEPT ![t] = @ + 1]
                ELSE [elapsed EXCEPT ![t] = 0]
           left == IF t \in activeDownloads' THEN E ELSE [E EXCEPT ![t] = 0]
       IN /\ elapsed' = IF Len(tasks') > Len(tasks) THEN Append(left, 0) ELSE left
          /\ IF b = 0
             THEN UNCHANGED reports
             ELSE LET versionDetails == batches[b].versionDetails
                      totalSize == Fix(batches[b].totalSize)
                      isClient == d.artifact = "client"
                      during == IF isClient
                                THEN d.downloaded
                                ELSE reports[b].downloadedSize
                                       + (d.downloaded - tasks[t].reported)
                      after == IF isClient
                               THEN Fix(versionDetails.client.size)
                               ELSE during
                                      + Fix(versionDetails.libraries[batches[b].library].size)
                  IN reports' = [reports EXCEPT ![b] =
                       IF d.status = "completed"
                       THEN Progress(after,
                                << Report(during, totalSize, activeDownloads, tasks', E),
                                   Report(after, totalSize, activeDownloads \ {t},
                                          tasks', E) >>)
                       ELSE Progress(during,
                                << Report(during, totalSize, activeDownloads,
                                          tasks', E) >>)]
    /\ UNCHANGED <<resolverVars, launcherVars, invocation>>

\* downloadVersion's callbacks of downloadAssets and downloadModLoader:
\* downloadedSize += progress; updateProgress()
AfterChunk(b, chunk) ==
    LET downloadedSize == reports[b].downloadedSize + Fix(chunk)
    IN reports' = [reports EXCEPT ![b] =
          Progress(downloadedSize,
                   << Report(downloadedSize, Fix(batches[b].totalSize),
                             activeDownloads, tasks, elapsed) >>)]

ReportedAssetsTick(b) ==
    /\ AssetsTickStep(b)
    /\ AfterChunk(b, AssetChunk(AssetTotalSize))
    /\ UNCHANGED <<elapsed, resolverVars, launcherVars, invocation>>

ReportedLoaderTick(b) ==
    /\ LoaderTickStep(b)
    /\ AfterChunk(b, LoaderChunk(getModLoaderSize(batches[b].modLoader)))
    /\ UNCHANGED <<elapsed, resolverVars, launcherVars, invocation>>

(***************************************************************************)
(* The specification.                                                      *)
(***************************************************************************)
Init ==
    /\ tasks = << >>
    /\ activeDownloads = {}
    /\ downloadStats = [totalFiles |-> 0, totalDownloaded |-> 0]
    /\ batches = << >>
    /\ installedVersions = {}
    /\ verified = {}
    /\ unloaded = FALSE
    /\ resolved = << >>
    /\ gameSettings = DefaultSettings
    /\ launchParams = << >>
    /\ currentUser = NoUser
    /\ authType = NoAuth
    /\ authTimers = {}
    /\ platform = "Linux x86_64"
    /\ launches = << >>
    /\ gameProcess = NoProcess
    /\ launchHistory = << >>
    /\ elapsed = << >>
    /\ reports = << >>
    /\ invocation = NoCall

Next ==
    \/ DownloadFile
    \/ \E v \in RequestedVersions, l \in RequestedLoaders : DownloadVersion(v, l)
    \/ \E t \in Ids : Tick(t)
    \/ \E t \in Ids : FailTimer(t)
    \/ \E b \in DOMAIN batches : AssetsTick(b)
    \/ \E b \in DOMAIN batches : LoaderTick(b)
    \/ \E t \in Ids : CancelDownload(t)
    \/ CancelAllDownloads
    \/ \E t \in Ids : PauseDownload(t)
    \/ \E t \in Ids : ResumeDownload(t)
    \/ Shutdown

\* A session shorter than the 24 hours after which cleanupOldDownloads removes
\* a download: the memory monitor's cleanup finds nothing to remove.
Spec == Init /\ [][Next]_vars

\* The transfers with their failures, cancellations and the shutdown, without
\* pauseDownload and resumeDownload, which change the status of a download and
\* nothing of its transfer.
NextTransfer ==
    \/ DownloadFile
    \/ \E v \in RequestedVersions, l \in RequestedLoaders : DownloadVersion(v, l)
    \/ \E t \in Ids : Tick(t)
    \/ \E t \in Ids : FailTimer(t)
    \/ \E b \in DOMAIN batches : AssetsTick(b)
    \/ \E b \in DOMAIN batches : LoaderTick(b)
    \/ \E t \in Ids : CancelDownload(t)
    \/ CancelAllDownloads
    \/ Shutdown

SpecTransfer == Init /\ [][NextTransfer]_vars

\* The transfers with pauseDownload and resumeDownload and without any
\* cancellation.
NextPause ==
    \/ DownloadFile
    \/ \E v \in RequestedVersions, l \in RequestedLoaders : DownloadVersion(v, l)
    \/ \E t \in Ids : Tick(t)
    \/ \E t \in Ids : FailTimer(t)
    \/ \E b \in DOMAIN batches : AssetsTick(b)
    \/ \E b \in DOMAIN batches : LoaderTick(b)
    \/ \E t \in Ids : PauseDownload(t)
    \/ \E t \in Ids : ResumeDownload(t)

SpecPause == Init /\ [][NextPause]_vars

\* The downloads while the page stays open, with timers that fire: an
\* interval that is running gets its next callback.  Direct downloadFile calls
\* are followed up to the number of concurrency slots.
NextSettle ==
    \/ DownloadFileWithin(maxConcurrentDownloads)
    \/ \E v \in RequestedVersions, l \in RequestedLoaders : DownloadVersion(v, l)
    \/ \E t \in Ids : Tick(t)
    \/ \E t \in Ids : FailTimer(t)
    \/ \E b \in DOMAIN batches : AssetsTick(b)
    \/ \E b \in DOMAIN batches : LoaderTick(b)
    \/ \E t \in Ids : CancelDownload(t)
    \/ \E t \in Ids : PauseDownload(t)
    \/ \E t \in Ids : ResumeDownload(t)

SpecSettle ==
    Init /\ [][NextSettle]_vars /\ \A t \in 1..MaxTasks : WF_vars(Tick(t))

\* A session that outlasts 24 hours: the memory monitor's cleanup removes the
\* downloads that were started first.
NextLongSession ==
    \/ Next
    \/ \E k \in Ids : CleanupOldDownloads(k)

SpecLongSession == Init /\ [][NextLongSession]_vars

\* The callers of the resolver, and the timers of the downloads they start.
\* They ask for a snapshot and for an id that is not in the catalog, without
\* loader, with a loader the snapshot lists and with one it does not list.
ResolvedVersions == {"24w21b", "0.0"}

ResolvedLoaders == {NoLoader, "fabric", "forge"}

NextResolve ==
    \/ \E v \in ResolvedVersions : GetVersionDetails(v)
    \/ \E v \in ResolvedVersions, l \in ResolvedLoaders : CalculateDownloadSize(v, l)
    \/ \E v \in ResolvedVersions, l \in ResolvedLoaders : ResolveAndDownload(v, l)
    \/ \E t \in Ids : Tick(t)
    \/ \E t \in Ids : FailTimer(t)
    \/ \E b \in DOMAIN batches : AssetsTick(b)
    \/ \E b \in DOMAIN batches : LoaderTick(b)

SpecResolve == Init /\ [][NextResolve]_vars

\* The launcher after its constructor merged the saved settings into the
\* defaults, the settings page, and launchGame building launch parameters.
InitLaunch ==
    /\ tasks = << >>
    /\ activeDownloads = {}
    /\ downloadStats = [totalFiles |-> 0, totalDownloaded |-> 0]
    /\ batches = << >>
    /\ installedVersions = {}
    /\ verified = {}
    /\ unloaded = FALSE
    /\ resolved = << >>
    /\ \E ram \in RamAllocations, width \in ResolutionWidths, str \in JvmArgStrings :
          gameSettings = [DefaultSettings EXCEPT !.ramAllocation = ram,
                                                 !.resolutionWidth = width,
                                                 !.jvmArgs = str]
    /\ launchParams = << >>
    /\ currentUser = Steve
    /\ authType = "offline"
    /\ authTimers = {}
    /\ platform = "Linux x86_64"
    /\ launches = << >>
    /\ gameProcess = NoProcess
    /\ launchHistory = << >>
    /\ elapsed = << >>
    /\ reports = << >>
    /\ invocation = NoCall

NextLaunch ==
    \/ \E ram \in RamAllocations : UpdateSettings("ramAllocation", ram)
    \/ \E width \in ResolutionWidths : UpdateSettings("resolutionWidth", width)
    \/ \E l \in RequestedLoaders : PrepareLaunchParameters("1.20.4", l)

SpecLaunch == InitLaunch /\ [][NextLaunch]_vars

\* The builder of the launch parameters with every caller it can have: the
\* version details are those of 1.20.4, also with a library that has no
\* artifact and with other argument templates (one with a placeholder that
\* replaceArgumentVariables does not know, one with a placeholder twice in a
\* token); the identity is one that AuthManager has handed out, also after
\* updateProfile renamed it.
BuildTemplates ==
    { minecraftArguments,
      << "--username", " ", "${auth_player_name}", " ", "--demo", " ",
         "${resolution_width}" >>,
      << "--name=", "${auth_player_name}", "/", "${auth_player_name}" >> }

BuildDetails ==
    LET details == getVersionDetails("1.20.4", CHOOSE sizes \in SampledLibrarySizes : TRUE)
    IN {[details EXCEPT !.minecraftArguments = template] : template \in BuildTemplates}
         \cup {[details EXCEPT !.libraries[1].artifact = FALSE]}

ProfileNames == { << "${auth_uuid}" >> }

BuildUsers ==
    {Steve, MicrosoftUser} \cup {[Steve EXCEPT !.username = name] : name \in ProfileNames}

InitBuild ==
    /\ tasks = << >>
    /\ activeDownloads = {}
    /\ downloadStats = [totalFiles |-> 0, totalDownloaded |-> 0]
    /\ batches = << >>
    /\ installedVersions = {}
    /\ verified = {}
    /\ unloaded = FALSE
    /\ resolved = << >>
    /\ gameSettings = DefaultSettings
    /\ launchParams = << >>
    /\ currentUser = NoUser
    /\ authType = NoAuth
    /\ authTimers = {}
    /\ platform \in Platforms
    /\ launches = << >>
    /\ gameProcess = NoProcess
    /\ launchHistory = << >>
    /\ elapsed = << >>
    /\ reports = << >>
    /\ invocation = NoCall

NextBuild ==
    \/ AuthenticateOffline(<< "Steve" >>)
    \/ Authenticate("microsoft")
    \/ AuthenticateTimeout("microsoft")
    \/ \E name \in ProfileNames : UpdateProfile(name)
    \/ Logout
    \/ \E user \in BuildUsers, versionDetails \in BuildDetails, l \in RequestedLoaders :
            PrepareLaunchParametersWith(user, versionDetails, l, << >>)

SpecBuild == InitBuild /\ [][NextBuild]_vars

\* the server addresses a caller of launchGame gives: any string of at most
\* MaxAddressPieces names, numbers and colons; the empty one stands for null
ServerAddresses ==
    UNION {[1..n -> {"host", ":", "25565"}] : n \in 0..MaxAddressPieces}

\* The launcher of a user who is logged in offline, changes the resolution on
\* the settings page and joins servers: launchGame(versionId, null,
\* serverAddress) builds the launch parameters for the current user.
ResolutionHeights == {0, 720}

JoinServer(serverAddress) ==
    /\ currentUser # NoUser /\ authType # NoAuth
    /\ \E sizes \in SampledLibrarySizes :
         PrepareLaunchParametersWith(currentUser, getVersionDetails("1.20.4", sizes),
                                     NoLoader, serverAddress)

InitJoin ==
    /\ tasks = << >>
    /\ activeDownloads = {}
    /\ downloadStats = [totalFiles |-> 0, totalDownloaded |-> 0]
    /\ batches = << >>
    /\ installedVersions = {}
    /\ verified = {}
    /\ unloaded = FALSE
    /\ resolved = << >>
    /\ gameSettings = DefaultSettings
    /\ launchParams = << >>
    /\ currentUser = Steve
    /\ authType = "offline"
    /\ authTimers = {}
    /\ platform = "Linux x86_64"
    /\ launches = << >>
    /\ gameProcess = NoProcess
    /\ launchHistory = << >>
    /\ elapsed = << >>
    /\ reports = << >>
    /\ invocation = NoCall

NextJoin ==
    \/ \E width \in ResolutionWidths : UpdateSettings("resolutionWidth", width)
    \/ \E height \in ResolutionHeights : UpdateSettings("resolutionHeight", height)
    \/ \E serverAddress \in ServerAddresses : JoinServer(serverAddress)

SpecJoin == InitJoin /\ [][NextJoin]_vars

\* The launcher of a user who is logged in offline, has 1.20.4 installed and
\* starts it: the launch history that earlier sessions saved is empty, one
\* short of the limit or at the limit, and the settings files the user
\* imports hold a short history or one that is longer than the limit.
SavedLaunches == {0, LaunchHistoryLimit - 1, LaunchHistoryLimit}

ImportedHistories == {SavedHistory(2), SavedHistory(LaunchHistoryLimit + 1)}

InitHistory ==
    /\ tasks = << >>
    /\ activeDownloads = {}
    /\ downloadStats = [totalFiles |-> 0, totalDownloaded |-> 0]
    /\ batches = << >>
    /\ installedVersions = {"1.20.4"}
    /\ verified = {}
    /\ unloaded = FALSE
    /\ resolved = << >>
    /\ gameSettings = DefaultSettings
    /\ launchParams = << >>
    /\ currentUser = Steve
    /\ authType = "offline"
    /\ authTimers = {}
    /\ platform = "Linux x86_64"
    /\ launches = << >>
    /\ gameProcess = NoProcess
    /\ \E n \in SavedLaunches : launchHistory = SavedHistory(n)
    /\ elapsed = << >>
    /\ reports = << >>
    /\ invocation = NoCall

NextHistory ==
    \/ LaunchGame("1.20.4", NoLoader, << >>)
    \/ \E c \in DOMAIN launches : LaunchTick(c)
    \/ \E c \in DOMAIN launches : LaunchFailTimer(c)
    \/ \E history \in ImportedHistories : ImportSettings(history)

SpecHistory == InitHistory /\ [][NextHistory]_vars

\* The play button and the server list of a user who is logged in offline
\* and has nothing installed: handlePlayGame downloads and launches,
\* joinServer launches without looking whether the version is installed.
InitPlay ==
    /\ tasks = << >>
    /\ activeDownloads = {}
    /\ downloadStats = [totalFiles |-> 0, totalDownloaded |-> 0]
    /\ batches = << >>
    /\ installedVersions = {}
    /\ verified = {}
    /\ unloaded = FALSE
    /\ resolved = << >>
    /\ gameSettings = DefaultSettings
    /\ launchParams = << >>
    /\ currentUser = Steve
    /\ authType = "offline"
    /\ authTimers = {}
    /\ platform = "Linux x86_64"
    /\ launches = << >>
    /\ gameProcess = NoProcess
    /\ launchHistory = << >>
    /\ elapsed = << >>
    /\ reports = << >>
    /\ invocation = NoCall

NextPlay ==
    \/ \E v \in RequestedVersions, l \in RequestedLoaders : HandlePlayGame(v, l)
    \/ \E v \in RequestedVersions : LaunchGame(v, NoLoader, << "host" >>)
    \/ \E t \in Ids : Tick(t)
    \/ \E t \in Ids : FailTimer(t)
    \/ \E b \in DOMAIN batches : PlayAssetsTick(b)
    \/ \E b \in DOMAIN batches : PlayLoaderTick(b)
    \/ \E c \in DOMAIN launches : LaunchTick(c)
    \/ \E c \in DOMAIN launches : LaunchFailTimer(c)
    \/ Logout

SpecPlay == InitPlay /\ [][NextPlay]_vars

\* A downloadVersion call with an onProgress callback next to direct
\* downloads, with the speed of every download and every report followed.
NextProgress ==
    \/ TimedDownloadFile
    \/ \E v \in RequestedVersions, l \in RequestedLoaders : ReportedDownloadVersion(v, l)
    \/ \E t \in Ids : ReportedTick(t)
    \/ \E t \in Ids : FailTimer(t)
    \/ \E b \in DOMAIN batches : ReportedAssetsTick(b)
    \/ \E b \in DOMAIN batches : ReportedLoaderTick(b)
    \/ \E t \in Ids : CancelDownload(t)

SpecProgress == Init /\ [][NextProgress]_vars

\* The download manager with one more direct downloadFile caller than it has
\* concurrency slots.
NextCap ==
    \/ DownloadFileWithin(maxConcurrentDownloads + 1)
    \/ \E t \in Ids : Tick(t)
    \/ \E t \in Ids : FailTimer(t)
    \/ \E t \in Ids : CancelDownload(t)
    \/ CancelAllDownloads
    \/ \E t \in Ids : PauseDownload(t)
    \/ \E t \in Ids : ResumeDownload(t)

SpecCap == Init /\ [][NextCap]_vars

\* The download manager with a caller that also runs verifyFile on the files
\* of its downloads.
NextVerify ==
    \/ DownloadFile
    \/ \E t \in Ids : Tick(t)
    \/ \E t \in Ids : FailTimer(t)
    \/ \E t \in Ids, isValid \in BOOLEAN : VerifyFile(t, isValid)

SpecVerify == Init /\ [][NextVerify]_vars

(***************************************************************************)
(* downloadAssets and downloadModLoader, each call on its own with the     *)
(* sizes and the divisors of the code.                                     *)
(***************************************************************************)
\* downloadAssets: const chunkSize = Math.floor(totalSize / 200)
AssetDivisor == 200
\* downloadModLoader: const chunkSize = Math.floor(modLoaderSize / 50)
LoaderDivisor == 50

\* assetIndex.totalSize: the one getVersionDetails gives every version, and
\* sizes around the divisor
AssetTotalSizes == {1, 199, 200, 401, 234567890}

\* what getModLoaderSize returns: sizes[modLoader] || 0
ModLoaderSizes == {0, 5000000, 8000000, 15000000}

\* the call when its promise is made: let downloaded = 0, the interval set.
\* reported is the sum of what onProgress was called with
IntervalCall(fn, size, divisor) == [fn |-> fn, size |-> size, divisor |-> divisor, downloaded |-> 0, reported |-> 0, resolved |-> FALSE]

\* one callback of the interval: downloaded += chunkSize;
\* onProgress(chunkSize); if (downloaded >= size) { clearInterval; resolve() }
ChunkStep(c) ==
    LET chunk == c.size \div c.divisor
        downloaded == c.downloaded + chunk
    IN [c EXCEPT !.downloaded = downloaded,
                 !.reported = @ + chunk,
                 !.resolved = downloaded >= c.size]

\* the callback of downloadAssets' interval, every 25 ms until it is cleared
AssetIntervalTick ==
    /\ invocation.fn = "downloadAssets"
    /\ ~invocation.resolved
    /\ invocation' = ChunkStep(invocation)
    /\ UNCHANGED <<downloadVars, resolverVars, launcherVars, elapsed, reports>>

\* the callback of downloadModLoader's interval, every 100 ms until it is
\* cleared
ModLoaderIntervalTick ==
    /\ invocation.fn = "downloadModLoader"
    /\ ~invocation.resolved
    /\ invocation' = ChunkStep(invocation)
    /\ UNCHANGED <<downloadVars, resolverVars, launcherVars, elapsed, reports>>

InitIntervals ==
    /\ tasks = << >>
    /\ activeDownloads = {}
    /\ downloadStats = [totalFiles |-> 0, totalDownloaded |-> 0]
    /\ batches = << >>
    /\ installedVersions = {}
    /\ verified = {}
    /\ unloaded = FALSE
    /\ resolved = << >>
    /\ gameSettings = DefaultSettings
    /\ launchParams = << >>
    /\ currentUser = NoUser
    /\ authType = NoAuth
    /\ authTimers = {}
    /\ platform = "Linux x86_64"
    /\ launches = << >>
    /\ gameProcess = NoProcess
    /\ launchHistory = << >>
    /\ elapsed = << >>
    /\ reports = << >>
    /\ invocation \in
          {IntervalCall("downloadAssets", n, AssetDivisor) : n \in AssetTotalSizes}
             \cup {IntervalCall("downloadModLoader", n, LoaderDivisor) : n \in ModLoaderSizes}

NextIntervals ==
    \/ AssetIntervalTick
    \/ ModLoaderIntervalTick

\* the timers fire: an interval that is set gets its next callback
SpecIntervals ==
    InitIntervals /\ [][NextIntervals]_vars
       /\ WF_vars(AssetIntervalTick) /\ WF_vars(ModLoaderIntervalTick)

(***************************************************************************)
(* A session of the Microsoft user that loadSavedAuth restored, with 1.20.4 *)
(* installed, while authentications that were started earlier are pending: *)
(* no authenticate call is made any more.                                  *)
(***************************************************************************)
InitSession ==
    /\ tasks = << >>
    /\ activeDownloads = {}
    /\ downloadStats = [totalFiles |-> 0, totalDownloaded |-> 0]
    /\ batches = << >>
    /\ installedVersions = {"1.20.4"}
    /\ verified = {}
    /\ unloaded = FALSE
    /\ resolved = << >>
    /\ gameSettings = DefaultSettings
    /\ launchParams = << >>
    /\ currentUser = MicrosoftUser
    /\ authType = "microsoft"
    /\ authTimers \in SUBSET {"microsoft", "mojang"}
    /\ platform = "Linux x86_64"
    /\ launches = << >>
    /\ gameProcess = NoProcess
    /\ launchHistory = << >>
    /\ elapsed = << >>
    /\ reports = << >>
    /\ invocation = NoCall

NextSession ==
    \/ Logout
    \/ \E type \in {"microsoft", "mojang"} : AuthenticateTimeout(type)
    \/ RefreshMicrosoftToken
    \/ RefreshTimeout
    \/ \E name \in ProfileNames : UpdateProfile(name)
    \/ LaunchGame("1.20.4", NoLoader, << >>)
    \/ \E c \in DOMAIN launches : LaunchTick(c)
    \/ \E c \in DOMAIN launches : LaunchFailTimer(c)

SpecSession == InitSession /\ [][NextSession]_vars

(***************************************************************************)
(* Utils.retry(fn, maxAttempts, baseDelay), one call on its own.           *)
(***************************************************************************)
\* baseDelay: the default and a shorter one
BaseDelays == {1000, 250}

\* what the invocations of fn do, in order: TRUE returns, FALSE throws
Outcomes(maxAttempts) == [1..maxAttempts -> BOOLEAN]

\* const delay = baseDelay * Math.pow(2, attempt - 1)
retryDelay(baseDelay, attempt) == baseDelay * 2^(attempt - 1)

\* the call on entry to its loop: attempt = 1, fn about to be invoked.
\* invoked counts the invocations of fn, waits lists the delays waited,
\* result and error are the invocations whose value was returned and whose
\* error was thrown (0 for none)
RetryCall(maxAttempts, baseDelay, outcomes) == [fn |-> "retry", maxAttempts |-> maxAttempts, baseDelay |-> baseDelay, outcomes |-> outcomes, attempt |-> 1, invoked |-> 0, waits |-> << >>, pc |-> "calling", result |-> 0, error |-> 0]

\* one pass of the loop body up to its await on wait: return await fn(), or
\* the catch block that throws after the last attempt and else starts the
\* wait
RetryAttempt ==
    /\ invocation.fn = "retry"
    /\ invocation.pc = "calling"
    /\ LET c == [invocation EXCEPT !.invoked = @ + 1]
       IN invocation' =
            IF c.outcomes[c.attempt]
            THEN [c EXCEPT !.pc = "returned", !.result = c.attempt]
            ELSE IF c.attempt = c.maxAttempts
            THEN [c EXCEPT !.pc = "thrown", !.error = c.attempt]
            ELSE [c EXCEPT !.pc = "waiting",
                           !.waits = Append(@, retryDelay(c.baseDelay, c.attempt))]
    /\ UNCHANGED <<downloadVars, resolverVars, launcherVars, elapsed, reports>>

\* the timeout of wait fires: attempt++ and the next pass
RetryWake ==
    /\ invocation.fn = "retry"
    /\ invocation.pc = "waiting"
    /\ invocation' = [invocation EXCEPT !.pc = "calling", !.attempt = @ + 1]
    /\ UNCHANGED <<downloadVars, resolverVars, launcherVars, elapsed, reports>>

InitRetry ==
    /\ tasks = << >>
    /\ activeDownloads = {}
    /\ downloadStats = [totalFiles |-> 0, totalDownloaded |-> 0]
    /\ batches = << >>
    /\ installedVersions = {}
    /\ verified = {}
    /\ unloaded = FALSE
    /\ resolved = << >>
    /\ gameSettings = DefaultSettings
    /\ launchParams = << >>
    /\ currentUser = NoUser
    /\ authType = NoAuth
    /\ authTimers = {}
    /\ platform = "Linux x86_64"
    /\ launches = << >>
    /\ gameProcess = NoProcess
    /\ launchHistory = << >>
    /\ elapsed = << >>
    /\ reports = << >>
    /\ \E maxAttempts \in 1..MaxAttempts, baseDelay \in BaseDelays :
          \E outcomes \in Outcomes(maxAttempts) :
              invocation = RetryCall(maxAttempts, baseDelay, outcomes)

NextRetry ==
    \/ RetryAttempt
    \/ RetryWake

SpecRetry == InitRetry /\ [][NextRetry]_vars

\* ---------------------------------------------------------------------------
\* Properties of the download manager

\* the artifacts of a version in the order its manifest lists them: the
\* client, the libraries that have an artifact, the assets, the mod loader
RECURSIVE LibraryNames(_)
LibraryNames(i) ==
    IF i > Len(getMockLibraries) THEN <<>>
    ELSE (IF HasArtifact(i) THEN <<ArtifactName(i)>> ELSE <<>>) \o LibraryNames(i + 1)

Manifest(modLoader) ==
    <<"client">> \o LibraryNames(1) \o <<"assets">>
        \o (IF modLoader = NoLoader THEN <<>> ELSE <<"modLoader">>)

\* the download tasks that the downloadVersion call b created
OwnedBy(b) == {t \in Ids : tasks[t].owner = b}

\* C1: a task's status only moves forward; once it is completed, failed or
\* cancelled it never changes again.
C1_StatusMonotonic ==
    [][\A t \in DOMAIN tasks :
          tasks[t].status \in Terminal => tasks'[t].status = tasks[t].status]_vars

\* C2: cancelAllDownloads turns every task that is not yet completed, failed
\* or cancelled into cancelled and leaves activeDownloads empty, while
\* completed tasks and the statistics stay as they were.
C2_CancelAllCancelsEveryTask ==
    [][(CancelAllDownloads \/ Shutdown) =>
          /\ \A t \in DOMAIN tasks :
                /\ tasks[t].status \in NonTerminal => tasks'[t].status = "cancelled"
                /\ tasks[t].status = "completed" => tasks'[t] = tasks[t]
          /\ activeDownloads' = {}
          /\ downloadStats' = downloadStats]_vars

\* C3: a cancelled task is abandoned: its byte count no longer grows, its
\* onProgress is no longer called and it is never reported as failed.
C3_CancelledTransferAbandoned ==
    [][\A t \in DOMAIN tasks :
          tasks[t].status = "cancelled" =>
              /\ tasks'[t].downloaded = tasks[t].downloaded
              /\ tasks'[t].reported = tasks[t].reported
              /\ tasks'[t].status # "failed"]_vars

\* C4: after a batch cancel the downloadVersion in progress starts no further
\* artifact and never marks its version installed.
C4_CancelledBatchStops ==
    [][\A b \in DOMAIN batches :
          batches[b].cancelled =>
              /\ batches'[b].started = batches[b].started
              /\ OwnedBy(b)' = OwnedBy(b)
              /\ batches[b].versionId \in installedVersions'
                     => batches[b].versionId \in installedVersions]_vars

\* C5: at most maxConcurrentDownloads tasks are in the downloading state at
\* any time.
C5_ConcurrencyCap ==
    Cardinality({t \in Ids : tasks[t].status = "downloading"}) <= maxConcurrentDownloads

\* C6: downloadVersion starts the artifacts of a version in manifest order:
\* what it has started so far is a prefix of the manifest, and its download
\* tasks were created in that order, one per artifact.
C6_ManifestOrder ==
    \A b \in DOMAIN batches :
        LET manifest == Manifest(batches[b].modLoader)
            started == batches[b].started
            PositionIn(seq, name) == CHOOSE i \in 1..Len(seq) : seq[i] = name
        IN
        /\ Len(started) <= Len(manifest)
        /\ \A i \in 1..Len(started) : started[i] = manifest[i]
        /\ \A t \in OwnedBy(b) :
              /\ \E i \in 1..Len(batches[b].started) :
                    batches[b].started[i] = tasks[t].artifact
              /\ \A u \in OwnedBy(b) :
                    t < u => PositionIn(manifest, tasks[t].artifact)
                                 < PositionIn(manifest, tasks[u].artifact)

\* a version with a mod loader whose every artifact has been started
C6_Witness ==
    \E b \in DOMAIN batches :
        /\ batches[b].modLoader # NoLoader
        /\ batches[b].started = Manifest(batches[b].modLoader)
        /\ Cardinality(OwnedBy(b)) = FilesPerVersion

\* C7: a failed artifact does not stop its batch: when downloadVersion ends in
\* failure every artifact of the manifest has been started and all files but
\* the failed one are completed.
C7_ErrorsIsolated ==
    \A b \in DOMAIN batches :
        (batches[b].pc = "rejected" /\ KnownVersion(batches[b].versionId)) =>
            /\ batches[b].started = Manifest(batches[b].modLoader)
            /\ Cardinality({t \in OwnedBy(b) : tasks[t].status = "completed"})
                   >= FilesPerVersion - 1

\* C8: a failed transfer is retried: downloadVersion fails only after some
\* artifact has been attempted more than once.
C8_FailureRetried ==
    \A b \in DOMAIN batches :
        (batches[b].pc = "rejected" /\ KnownVersion(batches[b].versionId)) =>
            \E t, u \in OwnedBy(b) : t # u /\ tasks[t].artifact = tasks[u].artifact

\* C9: a task is completed only if all its bytes arrived and verifyFile
\* accepted its file.
C9_CompletedOnlyIfVerified ==
    \A t \in Ids :
        tasks[t].status = "completed" =>
            /\ IsComplete(tasks[t])
            /\ <<t, TRUE>> \in verified
            /\ <<t, FALSE>> \notin verified

\* C10: the bytes downloaded of a task never exceed its size.
C10_DownloadedAtMostSize ==
    \A t \in Ids : tasks[t].downloaded <= Fix(tasks[t].size)

\* a task that reached exactly its size beside one that is part way
C10_Witness ==
    \E t, u \in Ids :
        /\ tasks[t].status = "completed"
        /\ tasks[t].downloaded = Fix(tasks[t].size)
        /\ tasks[u].downloaded > 0
        /\ tasks[u].downloaded < Fix(tasks[u].size)

\* C11: the downloaded byte count of a task never decreases, and neither does
\* the byte count that its successive onProgress callbacks observe.
C11_DownloadedNonDecreasing ==
    [][\A t \in DOMAIN tasks :
          /\ tasks'[t].downloaded >= tasks[t].downloaded
          /\ tasks'[t].reported >= tasks[t].reported]_vars

\* a task whose onProgress has observed a part of the file
C11_Witness ==
    \E t \in Ids :
        /\ tasks[t].onProgress
        /\ tasks[t].reported > 0
        /\ tasks[t].reported < Fix(tasks[t].size)
        /\ tasks[t].reported = tasks[t].downloaded

(***************************************************************************)
(* Properties of the resolver.                                             *)
(***************************************************************************)
\* C12: a version id that is not in the catalog makes getVersionDetails,
\* calculateDownloadSize and downloadVersion fail with the not-found error;
\* downloadVersion creates no download task for it and the id never becomes
\* installed.
C12_UnknownVersionRejected ==
    /\ \A i \in DOMAIN resolved :
          resolved[i].versionId \notin VersionIds =>
              resolved[i].error = NotFound(resolved[i].versionId)
    /\ \A b \in DOMAIN batches :
          batches[b].versionId \notin VersionIds =>
              /\ batches[b].pc = "rejected"
              /\ batches[b].started = << >>
              /\ OwnedBy(b) = {}
    /\ installedVersions \subseteq VersionIds

\* an unknown id was given to calculateDownloadSize and to downloadVersion
C12_Witness ==
    /\ \E i \in DOMAIN resolved :
          /\ resolved[i].versionId \notin VersionIds
          /\ resolved[i].call = "calculateDownloadSize"
    /\ \E b \in DOMAIN batches : batches[b].versionId \notin VersionIds

\* C13: a loader that getModLoaders does not list for the version makes
\* calculateDownloadSize and downloadVersion fail instead of going on.
C13_UnknownLoaderRejected ==
    /\ \A i \in DOMAIN resolved :
          ( /\ resolved[i].versionId \in VersionIds
            /\ resolved[i].modLoader # NoLoader
            /\ resolved[i].modLoader \notin getModLoaders(resolved[i].versionId) )
              => resolved[i].error # NoError
    /\ \A b \in DOMAIN batches :
          ( /\ batches[b].versionId \in VersionIds
            /\ batches[b].modLoader # NoLoader
            /\ batches[b].modLoader \notin getModLoaders(batches[b].versionId) )
              => (batches[b].pc = "rejected" /\ OwnedBy(b) = {})

\* C14: the total of a resolved version is the client size plus the sizes of
\* the libraries that have an artifact plus the assets' totalSize plus, only
\* with a loader, the loader size; calculateDownloadSize and downloadVersion
\* compute the same total from the same version details.
C14_TotalIsSumOfArtifacts ==
    LET RECURSIVE Sum(_, _)
        Sum(libraries, S) ==
            IF S = {} THEN 0
            ELSE LET i == CHOOSE k \in S : TRUE
                 IN libraries[i].size + Sum(libraries, S \ {i})
        Expected(d, modLoader) ==
            d.client.size
              + Sum(d.libraries, {i \in DOMAIN d.libraries : d.libraries[i].artifact})
              + d.assetIndex.totalSize
              + (IF modLoader = NoLoader THEN 0 ELSE getModLoaderSize(modLoader))
        Sized == {i \in DOMAIN resolved :
                    /\ resolved[i].call = "calculateDownloadSize"
                    /\ resolved[i].error = NoError}
        Known == {b \in DOMAIN batches : batches[b].versionId \in VersionIds}
    IN /\ \A i \in Sized :
             resolved[i].totalSize
                 = Expected(resolved[i].versionDetails, resolved[i].modLoader)
       /\ \A b \in Known :
             batches[b].totalSize
                 = Expected(batches[b].versionDetails, batches[b].modLoader)
       /\ \A i \in Sized, b \in Known :
             ( /\ resolved[i].versionDetails = batches[b].versionDetails
               /\ resolved[i].modLoader = batches[b].modLoader )
                 => resolved[i].totalSize = batches[b].totalSize

\* calculateDownloadSize and downloadVersion worked on the same version
\* details with the same loader
C14_Witness ==
    \E i \in DOMAIN resolved, b \in DOMAIN batches :
        /\ resolved[i].call = "calculateDownloadSize"
        /\ resolved[i].error = NoError
        /\ batches[b].versionId \in VersionIds
        /\ resolved[i].modLoader = "fabric"
        /\ batches[b].modLoader = "fabric"
        /\ resolved[i].versionDetails = batches[b].versionDetails

\* C15: two calls that resolve the same version give the same version details,
\* and two calculateDownloadSize calls with the same arguments the same total.
C15_ResolveDeterministic ==
    \A i, j \in DOMAIN resolved :
        ( /\ resolved[i].versionId = resolved[j].versionId
          /\ resolved[i].error = NoError
          /\ resolved[j].error = NoError )
            => /\ resolved[i].versionDetails = resolved[j].versionDetails
               /\ ( /\ resolved[i].call = resolved[j].call
                    /\ resolved[i].modLoader = resolved[j].modLoader )
                      => resolved[i].totalSize = resolved[j].totalSize

\* C17: within one version no two artifacts have the same path: the path of
\* the client jar and the paths of the libraries are pairwise distinct, for
\* each version details that was returned and for the whole library list.
C17_PathsDistinct ==
    /\ \A i, j \in DOMAIN LibraryPaths : i # j => LibraryPaths[i] # LibraryPaths[j]
    /\ \A v \in VersionIds, i \in DOMAIN LibraryPaths : ClientPath(v) # LibraryPaths[i]
    /\ \A r \in DOMAIN resolved :
          resolved[r].error = NoError =>
              LET d == resolved[r].versionDetails
              IN /\ \A i, j \in DOMAIN d.libraries :
                       i # j => d.libraries[i].path # d.libraries[j].path
                 /\ \A i \in DOMAIN d.libraries :
                       d.libraries[i].path # ClientPath(d.id)

\* version details with more than one library were returned
C17_Witness ==
    \E r \in DOMAIN resolved :
        /\ resolved[r].error = NoError
        /\ Len(resolved[r].versionDetails.libraries) >= 2

(***************************************************************************)
(* Properties of the launch parameters.                                    *)
(***************************************************************************)
\* C16: launch parameters built with a loader carry the loader's entry point,
\* not the vanilla one.
C16_LoaderEntryPoint ==
    \A k \in DOMAIN launchParams :
        launchParams[k].modLoader # NoLoader =>
            launchParams[k].mainClass # VanillaMainClass

\* C18: the JVM arguments begin with -Xmx<ramAllocation>M and
\* -Xms<min(512, ramAllocation)>M: 1024 gives 1024 and 512, 256 gives a
\* minimum of 256, and the minimum is never above the maximum.
C18_MemoryFlags ==
    \A k \in DOMAIN launchParams :
        LET ram == launchParams[k].settings.ramAllocation
            jvmArgs == launchParams[k].jvmArgs
        IN /\ jvmArgs[1] = "-Xmx" \o ToString(ram) \o "M"
           /\ \E minimum \in RamAllocations \cup {512} :
                 /\ jvmArgs[2] = "-Xms" \o ToString(minimum) \o "M"
                 /\ minimum <= ram
                 /\ minimum <= 512
                 /\ minimum = ram \/ minimum = 512
           /\ ram = 1024 => (jvmArgs[1] = "-Xmx1024M" /\ jvmArgs[2] = "-Xms512M")
           /\ ram = 256 => jvmArgs[2] = "-Xms256M"

\* launch parameters built with a memory size below 512
C18_Witness ==
    \E k \in DOMAIN launchParams :
        /\ launchParams[k].settings.ramAllocation = 256
        /\ launchParams[k].jvmArgs[2] = "-Xms256M"

\* C19: the JVM arguments are the two memory flags, then the words of the
\* jvmArgs setting cut at every whitespace character, in their order and
\* without empty entry, then the three system properties.
C19_FlagOrder ==
    \A k \in DOMAIN launchParams :
        LET str == launchParams[k].settings.jvmArgs
            RECURSIVE Words(_, _)
            \* the words of the pieces from index i on; word is the one being read
            Words(i, word) ==
                IF i > Len(str)
                THEN IF word = "" THEN << >> ELSE << word >>
                ELSE IF str[i] \in Whitespace
                THEN (IF word = "" THEN << >> ELSE << word >>) \o Words(i + 1, "")
                ELSE Words(i + 1, word \o str[i])
            jvmArgs == launchParams[k].jvmArgs
        IN /\ Len(jvmArgs) = 2 + Len(Words(1, "")) + Len(SystemProperties)
           /\ SubSeq(jvmArgs, 3, Len(jvmArgs) - Len(SystemProperties)) = Words(1, "")
           /\ SubSeq(jvmArgs, Len(jvmArgs) - Len(SystemProperties) + 1, Len(jvmArgs))
                  = SystemProperties

\* C20: launch parameters are built only from settings whose memory size and
\* display dimensions are positive, and only with an entry point.
C20_InvalidSettingsRejected ==
    \A k \in DOMAIN launchParams :
        /\ launchParams[k].settings.ramAllocation > 0
        /\ launchParams[k].settings.resolutionWidth > 0
        /\ launchParams[k].settings.resolutionHeight > 0
        /\ launchParams[k].mainClass # ""

(***************************************************************************)
(* Properties of the game arguments and the classpath.                     *)
(***************************************************************************)
\* the tokens of the argument template that launch parameters p were built from
TemplateTokens(p) ==
    IF p.versionDetails.minecraftArguments = << >> THEN << >>
    ELSE split(p.versionDetails.minecraftArguments)

\* the value bound to a placeholder in the build of p, and any other piece
\* of a token as it is
BoundValue(p, piece) ==
    CASE piece = "${auth_player_name}" -> Text(p.user.username)
      [] piece = "${version_name}" -> p.versionDetails.id
      [] piece = "${game_directory}" -> ".minecraft"
      [] piece = "${assets_root}" -> ".minecraft/assets"
      [] piece = "${assets_index_name}" -> p.versionDetails.assetIndex.id
      [] piece = "${auth_uuid}" -> Text(p.user.uuid)
      [] piece = "${auth_access_token}" -> Text(p.user.accessToken)
      [] piece = "${version_type}" -> p.versionDetails.type
      [] piece = "${launcher_name}" -> "CraftLauncher"
      [] piece = "${launcher_version}" -> "1.0.0"
      [] OTHER -> piece

\* the placeholders a template can hold, known to the launcher or not
Placeholders ==
    { "${auth_player_name}", "${version_name}", "${game_directory}", "${assets_root}",
      "${assets_index_name}", "${auth_uuid}", "${auth_access_token}", "${user_type}",
      "${version_type}", "${launcher_name}", "${launcher_version}",
      "${resolution_width}" }

\* C21: every game argument made of a template token is the token with each
\* occurrence of each placeholder replaced by its bound value in one pass: a
\* placeholder that occurs twice is replaced twice, and what a value brought
\* in is not replaced again.  (Tokens with the account-type placeholder are
\* left to C25.)
C21_SinglePassSubstitution ==
    \A k \in DOMAIN launchParams :
        LET p == launchParams[k]
            tokens == TemplateTokens(p)
        IN \A i \in DOMAIN tokens :
              (\A j \in DOMAIN tokens[i] : tokens[i][j] # "${user_type}") =>
                  p.gameArgs[i] = Join([j \in DOMAIN tokens[i] |->
                                           BoundValue(p, tokens[i][j])], "")

C23_ClasspathInManifestOrder ==
    \A k \in DOMAIN launchParams :
        LET p == launchParams[k]
            libraries == p.versionDetails.libraries
            RECURSIVE Entries(_)
            \* the entries of the libraries from index i on
            Entries(i) ==
                IF i > Len(libraries) THEN << >>
                ELSE (IF libraries[i].artifact
                      THEN << "libraries/" \o libraries[i].path >> ELSE << >>)
                         \o Entries(i + 1)
            sep == IF platform = "Win32" THEN ";" ELSE ":"
        IN /\ p.classpath = Join(<< "versions/1.20.4/1.20.4.jar" >> \o Entries(1), sep)
           /\ (\A i \in DOMAIN libraries : libraries[i].artifact) =>
                 p.classpath = "versions/1.20.4/1.20.4.jar" \o sep
                                 \o "libraries/com.mojang/logging/1.0.0.jar" \o sep
                                 \o "libraries/com.mojang/blocklist/1.0.10.jar"
           /\ ~libraries[1].artifact =>
                 p.classpath = "versions/1.20.4/1.20.4.jar" \o sep
                                 \o "libraries/com.mojang/blocklist/1.0.10.jar"

\* launch parameters built from version details with a library that has no
\* artifact
C23_Witness ==
    /\ launchParams # << >>
    /\ ~launchParams[1].versionDetails.libraries[1].artifact
    /\ launchParams[1].classpath # ""

\* C25: two builds from the same version details, identity, settings, loader
\* and server address give the same launch parameters.
C25_BuildDeterministic ==
    [][(/\ launchParams # << >>
        /\ launchParams' # << >>
        /\ launchParams'[1].user = launchParams[1].user
        /\ launchParams'[1].versionDetails = launchParams[1].versionDetails
        /\ launchParams'[1].settings = launchParams[1].settings
        /\ launchParams'[1].modLoader = launchParams[1].modLoader
        /\ launchParams'[1].serverAddress = launchParams[1].serverAddress)
       => launchParams' = launchParams]_vars

C26_HistoryBounded == Len(launchHistory) <= 50

(***************************************************************************)
(* Properties of the play button.                                          *)
(***************************************************************************)
\* a downloadVersion call for versionId ran through all its steps
Downloaded(versionId) ==
    \E b \in DOMAIN batches :
        /\ batches[b].versionId = versionId
        /\ batches[b].pc = "installed"
        /\ batches[b].started = Manifest(batches[b].modLoader)

\* C27: starting from nothing installed, launch parameters are built and a
\* game is started only for a version that a downloadVersion call has
\* downloaded completely and marked installed; a launchGame call for any
\* other version is rejected, and so no game runs after a failed download.
C27_LaunchOnlyAfterDownload ==
    /\ \A c \in DOMAIN launches :
          launches[c].pc \in {"starting", "launched"} =>
              /\ Downloaded(launches[c].versionId)
              /\ launches[c].versionId \in installedVersions
    /\ \A c \in DOMAIN launches :
          ~Downloaded(launches[c].versionId) => launches[c].pc = "rejected"
    /\ \A k \in DOMAIN launchParams : Downloaded(launchParams[k].versionId)
    /\ gameProcess # NoProcess => Downloaded(gameProcess.version)
    /\ (\A b \in DOMAIN batches : batches[b].pc # "installed") =>
          /\ gameProcess = NoProcess
          /\ launchParams = << >>

\* the game runs for a version that handlePlayGame downloaded, and a
\* launchGame call for a version that is not installed was rejected
C27_Witness ==
    /\ gameProcess # NoProcess
    /\ Downloaded(gameProcess.version)
    /\ \E c \in DOMAIN launches :
          launches[c].error = "Minecraft 0.0 is not installed"

(***************************************************************************)
(* Properties of the progress reports.                                     *)
(***************************************************************************)
\* a and b are the same number
SameQuotient(a, b) == a.num * b.den = b.num * a.den

\* C28: in every report the ETA is the remaining bytes divided by the
\* reported speed, the reported speed is the mean of the speeds of the
\* downloads in the map, and the ETA is Infinity exactly when that speed is
\* zero: when no download is in the map or none of them has had a callback.
C28_EtaIsRemainingOverSpeed ==
    \A b \in DOMAIN reports : \A k \in DOMAIN reports[b].made :
        LET r == reports[b].made[k]
            remaining == r.total - r.downloaded
            active == DOMAIN r.speeds
        IN /\ (r.eta = Infinity) <=> (r.speed.num = 0)
           /\ r.eta # Infinity =>
                 /\ r.eta.den # 0
                 /\ r.speed.den # 0
                 /\ r.eta.num * r.speed.num = remaining * r.eta.den * r.speed.den
           /\ active = {} => r.eta = Infinity
           /\ (\A t \in active : r.speeds[t].num = 0) <=> (r.eta = Infinity)
           /\ \A t \in active : active = {t} => SameQuotient(r.speed, r.speeds[t])
           /\ \A t, u \in active :
                 (t # u /\ active = {t, u}) =>
                     SameQuotient(Quotient(2 * r.speed.num, r.speed.den),
                                  Quotient(r.speeds[t].num * r.speeds[u].den
                                             + r.speeds[u].num * r.speeds[t].den,
                                           r.speeds[t].den * r.speeds[u].den))

\* a callback made two reports: one with bytes remaining while the awaited
\* download was in the map with a speed, one after it had left the map and
\* no download was active, with Infinity
C28_Witness ==
    \E b \in DOMAIN reports :
        /\ Len(reports[b].made) = 2
        /\ LET first == reports[b].made[1]
               second == reports[b].made[2]
           IN /\ first.eta # Infinity
              /\ first.total > first.downloaded
              /\ \E t \in DOMAIN first.speeds : first.speeds[t].num > 0
              /\ DOMAIN second.speeds = {}
              /\ second.eta = Infinity

\* the chunks that downloadAssets or downloadModLoader has passed to its
\* callback when it resolves
Delivered(size, chunk) ==
    chunk * (CHOOSE n \in 1..size : n * chunk >= size /\ (n - 1) * chunk < size)

\* the bytes that downloadVersion call b has received so far, in half bytes:
\* those of its downloads, and the chunks of its assets and of its loader
Received(b) ==
    LET B == batches[b]
        size == getModLoaderSize(B.modLoader)
        files == {t \in Ids : tasks[t].owner = b}
        RECURSIVE Sum(_)
        Sum(S) == IF S = {} THEN 0
                  ELSE LET t == CHOOSE x \in S : TRUE
                       IN tasks[t].downloaded + Sum(S \ {t})
        assets == IF B.pc = "assets" THEN B.progress
                  ELSE IF B.pc \in {"modLoader", "installed"}
                       THEN Delivered(AssetTotalSize, AssetChunk(AssetTotalSize))
                       ELSE 0
        loader == IF B.pc = "modLoader" THEN B.progress
                  ELSE IF B.pc = "installed" /\ B.modLoader # NoLoader
                       THEN Delivered(size, LoaderChunk(size))
                       ELSE 0
    IN Sum(files) + Fix(assets) + Fix(loader)

\* C29: the downloaded value of every report is the sum of the bytes that
\* the artifacts of the downloadVersion call have received so far, the bytes
\* of each artifact counted once.
C29_DownloadedIsBytesReceived ==
    \A b \in DOMAIN reports : \A k \in DOMAIN reports[b].made :
        reports[b].made[k].downloaded = Received(b)

(***************************************************************************)
(* Properties of the activeDownloads map.                                  *)
(***************************************************************************)
\* C30: whenever control is back in the event loop, activeDownloads holds
\* exactly the downloads that are not terminal: every download in the map is
\* pending, downloading or paused, and every download that is pending,
\* downloading or paused is in the map.
C30_ActiveExactlyNonTerminal ==
    activeDownloads = {t \in Ids : tasks[t].status \in NonTerminal}

(***************************************************************************)
(* Properties of pauseDownload and resumeDownload.                         *)
(***************************************************************************)
\* C31: a download becomes completed only from downloading, and a paused
\* download stays paused until it is resumed or cancelled: it never goes
\* from paused to completed or failed.
C31_PausedUntilResumed ==
    [][\A t \in DOMAIN tasks :
          /\ (tasks'[t].status = "completed" /\ tasks[t].status # "completed")
                => tasks[t].status = "downloading"
          /\ tasks[t].status = "paused"
                => tasks'[t].status \in {"paused", "downloading", "cancelled"}]_vars

\* C32: while a download is paused its downloaded byte count does not change
\* and its onProgress callback is not called; bytes arrive only while the
\* status is downloading.
C32_PausedReceivesNothing ==
    [][\A t \in DOMAIN tasks :
          /\ tasks[t].status = "paused"
                => /\ tasks'[t].downloaded = tasks[t].downloaded
                   /\ tasks'[t].reported = tasks[t].reported
          /\ tasks'[t].downloaded # tasks[t].downloaded
                => tasks[t].status = "downloading"]_vars

(***************************************************************************)
(* Properties of markVersionInstalled.                                     *)
(***************************************************************************)
\* C33: a version id enters installedVersions only through a downloadVersion
\* call that has downloaded the client jar, every library with an artifact,
\* the assets and, when one is given, the loader, each to its end; the step
\* in which a downloadVersion call rejects leaves installedVersions as it is.
C33_InstalledAfterAllArtifacts ==
    [][/\ \A v \in installedVersions' \ installedVersions :
             \E b \in DOMAIN batches' :
                LET B == batches'[b]
                    files == {t \in DOMAIN tasks' : tasks'[t].owner = b}
                IN /\ B.versionId = v
                   /\ B.pc = "installed"
                   /\ b \in DOMAIN batches
                   /\ batches[b].pc \in {"assets", "modLoader"}
                   /\ B.started = Manifest(B.modLoader)
                   /\ Cardinality(files) = FilesPerVersion
                   /\ \A t \in files :
                         /\ tasks'[t].status = "completed"
                         /\ tasks'[t].downloaded = Fix(tasks'[t].size)
                   /\ B.progress >= (IF B.modLoader = NoLoader THEN AssetTotalSize
                                     ELSE getModLoaderSize(B.modLoader))
       /\ \A b \in DOMAIN batches' :
             (batches'[b].pc = "rejected"
                  /\ (b \notin DOMAIN batches \/ batches[b].pc # "rejected"))
                => installedVersions' = installedVersions]_vars

\* a version with a loader is installed
C33_Witness ==
    \E b \in DOMAIN batches :
        /\ batches[b].pc = "installed"
        /\ batches[b].modLoader # NoLoader
        /\ batches[b].versionId \in installedVersions

(***************************************************************************)
(* Bounds of the progress reports.                                         *)
(***************************************************************************)
\* C34: every report of a downloadVersion call has downloaded <= total, and
\* the downloaded values of its successive reports never decrease.
C34_ReportsBoundedAndMonotonic ==
    [][\A b \in DOMAIN reports' :
          LET made == reports'[b].made
              before == IF b \in DOMAIN reports THEN reports[b].downloadedSize ELSE 0
          IN /\ \A k \in DOMAIN made : made[k].downloaded <= made[k].total
             /\ (b \in DOMAIN reports /\ reports'[b] # reports[b]) =>
                   \A k \in DOMAIN made :
                      made[k].downloaded >= (IF k = 1 THEN before
                                             ELSE made[k - 1].downloaded)]_vars

(***************************************************************************)
(* Termination of downloadFile.                                            *)
(***************************************************************************)
\* C35: with timers that fire, every download that downloadFile has created
\* ends completed or failed and is then no longer in activeDownloads.
C35_EveryDownloadSettles ==
    \A t \in 1..MaxTasks :
        (t \in DOMAIN tasks)
            ~> /\ t \in DOMAIN tasks
               /\ tasks[t].status \in {"completed", "failed"}
               /\ t \notin activeDownloads

\* one download has ended completed and another failed, and neither is in
\* the map
C35_Witness ==
    \E t, u \in Ids :
        /\ tasks[t].status = "completed"
        /\ tasks[u].status = "failed"
        /\ {t, u} \cap activeDownloads = {}

\* C36: downloadAssets and downloadModLoader have reported, when they resolve,
\* byte deltas that sum to exactly the size they were given.
C36_DeltasSumToSize ==
    (invocation.fn \in {"downloadAssets", "downloadModLoader"} /\ invocation.resolved)
        => invocation.reported = invocation.size

\* C36, its other half: every call with a size of at least 1 resolves.
C36_EveryIntervalResolves ==
    (invocation.fn \in {"downloadAssets", "downloadModLoader"} /\ invocation.size >= 1)
        ~> invocation.resolved

\* the downloads that a step makes completed
NewlyCompleted == {t \in DOMAIN tasks : tasks[t].status # "completed" /\ tasks'[t].status = "completed"}

\* C37: the statistics change only when a task completes, by one file and the
\* size of the task; a step that makes a task failed or cancelled leaves them
\* unchanged, they never decrease, and a task that was cancelled is not
\* counted.
C37_StatsCountCompletedOnly ==
    [][/\ Cardinality(NewlyCompleted) <= 1
       /\ downloadStats'.totalFiles = downloadStats.totalFiles + Cardinality(NewlyCompleted)
       /\ \A t \in NewlyCompleted :
             /\ downloadStats'.totalDownloaded = downloadStats.totalDownloaded + tasks'[t].size
             /\ tasks[t].status # "cancelled"
       /\ NewlyCompleted = {} => downloadStats' = downloadStats]_vars

\* C37 without its last part: a cancelled task may be counted.
C37_StatsFollowCompletions ==
    [][/\ Cardinality(NewlyCompleted) <= 1
       /\ downloadStats'.totalFiles = downloadStats.totalFiles + Cardinality(NewlyCompleted)
       /\ \A t \in NewlyCompleted :
             downloadStats'.totalDownloaded = downloadStats.totalDownloaded + tasks'[t].size
       /\ NewlyCompleted = {} => downloadStats' = downloadStats]_vars

\* C38: a launchGame call made while no user is authenticated or for a version
\* that is not installed is rejected and never starts a game; the step in
\* which a call is rejected leaves gameProcess and the launch history as they
\* were; the launch history changes only when a launch succeeds, and then the
\* entry of that launch is put in front of the entries it had.
C38_RejectedLaunchLeavesNoTrace ==
    [][/\ \A c \in DOMAIN launches' :
             LET isNew == c \notin DOMAIN launches
                 l == launches'[c]
             IN /\ (isNew /\ (~isAuthenticated \/ l.versionId \notin installedVersions'))
                      => l.pc = "rejected"
                /\ (l.pc = "rejected" /\ (isNew \/ launches[c].pc # "rejected"))
                      => /\ gameProcess' = gameProcess
                         /\ launchHistory' = launchHistory
                /\ (~isNew /\ launches[c].pc = "rejected") => l = launches[c]
       /\ (launchHistory' # launchHistory \/ gameProcess' # gameProcess) =>
             \E c \in DOMAIN launches :
                 /\ launches[c].pc = "starting"
                 /\ launches'[c].pc = "launched"
                 /\ gameProcess'.version = launches[c].versionId
                 /\ Len(launchHistory') = Len(launchHistory) + 1
                 /\ Head(launchHistory').versionId = launches[c].versionId
                 /\ Tail(launchHistory') = launchHistory]_vars

\* a launch that succeeded and is in the history, and a call that was rejected
\* because the user had logged out
C38_Witness ==
    /\ Len(launchHistory) >= 1
    /\ \E c, d \in DOMAIN launches :
          /\ launches[c].pc = "launched"
          /\ launches[d].error = "User not authenticated"

\* C39: currentUser is null exactly when authType is null, and where no
\* authenticate call is made any more a user who is logged out stays logged
\* out: the timeout of an authentication or of a token refresh that was
\* started earlier does not log anybody in.
C39_LoggedOutUntilNewCall ==
    [][/\ (currentUser' = NoUser) <=> (authType' = NoAuth)
       /\ currentUser = NoUser => currentUser' = NoUser]_vars

\* C39, its first half: currentUser is null exactly when authType is null.
C39_UserIffAuthType == (currentUser = NoUser) <=> (authType = NoAuth)

\* the smaller of two numbers
Smaller(a, b) == IF a <= b THEN a ELSE b

\* the caps that the longest call followed reaches before its last wait
RetryCaps(baseDelay) == {baseDelay * 2^j : j \in 0..(MaxAttempts - 3)}

\* retry invokes fn at most maxAttempts times, returns the value of the first
\* invocation that succeeds and invokes fn no more, throws the last error
\* after the maxAttempts-th failure without another wait, and has waited
\* once after every other failure
RetryOutcome(c) ==
    /\ c.invoked <= c.maxAttempts
    /\ \A k \in 1..(c.invoked - 1) : ~c.outcomes[k]
    /\ c.pc = "returned" => c.outcomes[c.invoked] /\ c.result = c.invoked
    /\ c.pc = "thrown" =>
          /\ c.invoked = c.maxAttempts
          /\ ~c.outcomes[c.invoked]
          /\ c.error = c.maxAttempts
          /\ Len(c.waits) = c.maxAttempts - 1
    /\ c.pc \in {"returned", "calling"} => Len(c.waits) = c.invoked - (IF c.pc = "returned" THEN 1 ELSE 0)
    /\ c.pc = "waiting" => Len(c.waits) = c.invoked

\* C40: retry invokes fn at most maxAttempts times, returns the first success
\* without invoking fn again, rethrows the last error after the
\* maxAttempts-th failure without a further wait, and waits
\* baseDelay * 2^(k-1) after the k-th failed attempt, up to a cap.
C40_RetryBackoffCapped ==
    invocation.fn = "retry" =>
        /\ RetryOutcome(invocation)
        /\ \E cap \in RetryCaps(invocation.baseDelay) :
              \A k \in DOMAIN invocation.waits :
                  invocation.waits[k] = Smaller(invocation.baseDelay * 2^(k - 1), cap)

\* C40 without the cap: the delay doubles with every failed attempt.
C40_RetryBackoffDoubles ==
    invocation.fn = "retry" =>
        /\ RetryOutcome(invocation)
        /\ \A k \in DOMAIN invocation.waits :
              invocation.waits[k] = invocation.baseDelay * 2^(k - 1)

====
